---- MODULE Spec2Model ----
(***************************************************************************)
(* State-machine model of the research-analysis service of                 *)
(* ikhoma/researchai:                                                      *)
(*   - retryOperation, isQuota429 and analyzeResearchFile of               *)
(*     src/services/geminiService.ts (the module App imports),             *)
(*   - the progress / completion / failure handlers of handleAddFiles      *)
(*     (src/types.ts) for the one file whose analysis is followed,         *)
(*   - the ID remap and merge of the analyzeResearchFile variant kept in   *)
(*     src/unnamed/part_000.                                               *)
(*                                                                         *)
(* Every await of the source ends a step: the operation awaited is one     *)
(* action and the code that runs when the promise settles is the next.     *)
(***************************************************************************)
EXTENDS Integers, Sequences, FiniteSets, TLC

VARIABLES
  \* ---- retryOperation (one call of it at a time) ----
  rpc,          \* "idle" | "call" | "sleep" | "resolved" | "rejected"
  retries,      \* parameter retries
  delay,        \* parameter delay (ms)
  i,            \* the loop index
  lastError,    \* the local lastError
  rresult,      \* the value returned or the error thrown
  sleeps,       \* the durations passed to sleep(), in order
  opLog,        \* what each invocation of operation() did, in order
  attempts,     \* per wrapped operation: how many times it has been invoked
  \* ---- analyzeResearchFile ----
  pc,           \* position in analyzeResearchFile
  stage,        \* the operation retryOperation wraps: "op" | "upload" | "main" | "affinity" | "insights"
  fileSize,     \* file.size, in MiB
  attempt,      \* the local attempt of the poll loop
  fileState,    \* the last fileStatus.state the poll loop read ("NONE": none yet)
  mainJson,     \* the parsed main response
  affinityJson, \* the parsed affinity response (or its default)
  insightsJson, \* the parsed insights response (or its default)
  stageEnd,     \* per stage: how its retryOperation ended
  reported,     \* the statuses onProgress has been invoked with
  result,       \* the promise of analyzeResearchFile: pending, resolved or rejected
  \* ---- handleAddFiles: the ProjectFile of the analysed file ----
  pfile,
  projectError, \* projectState.error
  \* ---- the remap / merge of part_000, for two files ----
  mpc,          \* per file: "raw" | "merged"
  raw,          \* per file: the AI output (tags, highlights, themes)
  filePrefix,   \* per file: the random prefix drawn
  merged,       \* per file: the emitted ResearchData (tags, highlights, clusters)
  \* ---- App: projectState, history and the analyses in flight ----
  projectId,    \* projectState.id (0: undefined)
  projectName,  \* projectState.projectName
  projectData,  \* projectState.data (NoData: null)
  files,        \* projectState.files
  promises,     \* per file id drawn: the promise of its analyzeResearchFile call
  history,      \* the SavedProject list
  currentScreen, \* projectState.currentScreen
  confirmation, \* the project id of the pending delete confirmation (0: null)
  deleted,      \* the confirmed deletions: the project, whether it was the active
                \* one, and the analyses in flight at that moment
  nextId,       \* how many project ids have been drawn
  nextFileId,   \* how many file ids have been drawn
  edits,        \* how many rename, load and delete requests were made
  \* ---- AffinityScreen ----
  canvasClusters,     \* the local clusters state
  persisted,    \* projectState.data.clusters, as onUpdateClusters last set it
  deleteConfirmation, \* the cluster id of the pending delete confirmation ("": null)
  answer,       \* the button that last closed the delete confirmation
  dragState,    \* the drag gesture in progress (NoDrag: null)
  scale,        \* the zoom scale
  offset,       \* the pan offset
  control,      \* the viewport control that last set the scale ("": none yet)
  isPanning,    \* a pan gesture is in progress
  panStart,     \* (clientX, clientY) of the last mouse event of the pan
  draggedItem,  \* the item being dragged (NoItem: null)
  drops,        \* the drops handleItemDrop has handled: dragged item and target
  pointer,      \* (clientX, clientY) of the last mouse event of a gesture
  gesture,      \* the cluster grabbed, the pointer and the clusters when the gesture began
  moves,        \* how many mousemove events the gesture in progress has handled
  gestures,     \* how many drag gestures were started
  zooms,        \* how many times the scale was set
  layouts       \* the positions each run of handleAutoLayout assigned, in order

retryVars == <<rpc, retries, delay, i, lastError, rresult, sleeps, opLog, attempts>>
pipeVars  == <<pc, stage, fileSize, attempt, fileState, mainJson, affinityJson, insightsJson,
               stageEnd, reported, result>>
appVars   == <<pfile, projectError>>
mergeVars == <<mpc, raw, filePrefix, merged>>
histVars  == <<projectId, projectName, currentScreen, history, confirmation, deleted, nextId,
               edits>>
filesVars == <<projectData, files, promises, nextFileId>>
canvasVars == <<canvasClusters, persisted, deleteConfirmation, answer, dragState, scale, offset,
                control, isPanning, panStart, draggedItem, drops, pointer, gesture, moves,
                gestures, zooms, layouts>>
uiVars    == <<histVars, filesVars, canvasVars>>
vars == <<retryVars, pipeVars, appVars, mergeVars, uiVars>>

-----------------------------------------------------------------------------
\* Bounds of the model.

\* Largest retries parameter drawn for a stand-alone retryOperation call.
MaxRetries == 3

\* Largest number of tags in one file's AI output for the remap.
MaxTags == 2

\* Largest number of project ids drawn in one run of the App.
MaxProjects == 11

\* Largest number of files added in one run of the App.
MaxFiles == 2

\* Largest number of rename, load and delete requests in one run of the App.
MaxEdits == 1

\* Largest number of highlights one ResearchData holds while highlights are added.
MaxHighlights == 2

\* Largest number of project ids drawn while the screens are walked through.
MaxMenuProjects == 2

\* Largest number of drag gestures on the canvas.
MaxGestures == 2

\* Largest number of mousemove events in one drag gesture.
MaxMoves == 2

\* Largest number of zoom changes on the canvas.
MaxZooms == 2

\* Largest number of clusters laid out.
MaxClusters == 6

\* Largest number of runs of handleAutoLayout.
MaxLayoutRuns == 2

\* Largest number of highlight ids the AI lists in one cluster.
MaxItems == 2

\* Largest number of item drops on the canvas.
MaxDrops == 2

-----------------------------------------------------------------------------
\* Constants of the program.

InlineLimit    == 20     \* file.size > 20 * 1024 * 1024, in MiB
FileSizeLimit  == 500    \* file.size > 500 * 1024 * 1024, in MiB
UploadRetries  == 3
UploadDelay    == 3000
StageRetries   == 2
StageDelay     == 2000
MaxPolls       == 60     \* if (attempt > 60)
HistoryCap     == 10     \* .slice(0, 10)
PADDING        == 40
START_X        == 50
START_Y        == 50
MAX_ROW_WIDTH  == 1600

-----------------------------------------------------------------------------
\* Errors.  An error object is modelled by the fields the code reads:
\* status, code (0: the field is absent) and whether its message holds one of
\* the markers "RESOURCE_EXHAUSTED" / "exceeded your current quota".  The errors
\* drawn carry no nested `response` or `error` object.

Err(s, c, m, text) == [status |-> s, code |-> c, marker |-> m, msg |-> text]

NoError == Err(0, 0, FALSE, "undefined")

\* What an external call can throw: one error of each shape the code tells apart.
ApiErrors ==
  { Err(400, 0, FALSE, "api"),     \* client error
    Err(0, 404, FALSE, "api"),     \* client error carried by code alone
    Err(429, 0, FALSE, "api"),     \* quota, by status
    Err(0, 429, FALSE, "api"),     \* quota, by code alone
    Err(429, 503, FALSE, "api"),   \* status 429 beside another code
    Err(500, 0, FALSE, "api"),     \* server error
    Err(500, 0, TRUE, "api"),      \* server error whose message holds a quota marker
    Err(0, 0, FALSE, "api") }      \* no status at all (network failure)

\* new Error(message)
NewError(text) == Err(0, 0, FALSE, text)

\* error?.status || error?.code || error?.response?.status
StatusOf(error) == IF error.status # 0 THEN error.status ELSE error.code

\* A boundary slip: status > 400 in place of status >= 400.
NonRetryableAbove400(status) == status # 0 /\ status > 400 /\ status < 500 /\ status # 429

\* status && status >= 400 && status < 500 && status !== 429
NonRetryable(status) == status # 0 /\ status >= 400 /\ status < 500 /\ status # 429

\* An off-by-one loop test: i <= retries.
LoopContinuesOffByOne(idx, n) == idx <= n

\* for (let i = 0; i < retries; i++)
LoopContinues(idx, n) == idx < n

\* delay * Math.pow(2, i)
Backoff(d, idx) == d * (2 ^ idx)

\* isQuota429: code = err?.code || err?.status || err?.error?.code
isQuota429(err) ==
  LET code == IF err.code # 0 THEN err.code ELSE err.status
  IN  code = 429 \/ err.marker

-----------------------------------------------------------------------------
\* JSON values, tagged by their JavaScript type.

Undefined == [kind |-> "undefined"]
Null      == [kind |-> "null"]
Str(s)    == [kind |-> "string", val |-> s]
Arr(s)    == [kind |-> "array", items |-> s]

\* const ensureArray = (arr) => (Array.isArray(arr) ? arr : [])
ensureArray(arr) == IF arr.kind = "array" THEN arr.items ELSE <<>>

\* x || "" for a string-valued field
OrEmpty(x) == IF x.kind = "string" THEN x.val ELSE ""

\* A response of generateContent: its text is absent or empty ("empty"), is no
\* JSON ("invalid"), is the JSON text null ("null") or is a JSON object.
Response(t, j) == [text |-> t, json |-> j]

\* JSON.parse(response.text || "{}") throws
ParseThrows(resp) == resp.text = "invalid"

\* JSON.parse(response.text || "{}") where it does not throw
Parse(resp, emptyObject) ==
  CASE resp.text = "object" -> resp.json
    [] resp.text = "null"   -> Null
    [] OTHER                -> emptyObject

-----------------------------------------------------------------------------
\* The values the external services answer with.

\* ai.files.upload: uploadResponse.file || uploadResponse, by the fields read.
UploadResponses == [uri : BOOLEAN, name : BOOLEAN]

\* ai.files.get: fileStatus.state
FileStates == {"ACTIVE", "FAILED", "PROCESSING"}

T1 == [id |-> "t1", label |-> "Reason", color |-> "#fff"]
H1 == [id |-> "h1", text |-> "Because.", tagId |-> "t1"]

MainObj(t, tg, h) == [kind |-> "object", transcript |-> t, tags |-> tg, highlights |-> h]
EmptyMain == MainObj(Undefined, Undefined, Undefined)

\* Main objects: each field required by MAIN_SCHEMA present or missing.
MainObjects ==
  { MainObj(t, tg, h) : t \in {Undefined, Str("Question: Why? Answer: Because.")},
                        tg \in {Undefined, Arr(<<T1>>)},
                        h \in {Undefined, Arr(<<H1>>)} }

MainResponses ==
  { Response(t, Undefined) : t \in {"invalid", "empty", "null"} }
    \cup { Response("object", j) : j \in MainObjects }

ApiCluster(id, title, color, hIds) ==
  [id |-> id, title |-> title, color |-> color, highlightIds |-> hIds]

AffinityObj(items) == [kind |-> "object", items |-> items]
EmptyAffinity == AffinityObj(Undefined)

\* Affinity objects: no items, clusters that reference the highlight h1, a
\* highlight that does not exist (h9) and an empty highlight id, and a cluster
\* without id, title, color and highlightIds.
AffinityObjects ==
  { AffinityObj(Undefined),
    AffinityObj(Arr(<< ApiCluster("c1", "Motives", "#FCA5A5", Arr(<<"h1", "h9">>)) >>)),
    AffinityObj(Arr(<< ApiCluster("", "", "", Undefined),
                       ApiCluster("c2", "Doubts", "", Arr(<<"h9", "">>)) >>)) }

AffinityResponses ==
  { Response(t, Undefined) : t \in {"invalid", "empty", "null"} }
    \cup { Response("object", j) : j \in AffinityObjects }

ApiTheme(name, ev) == [theme |-> name, evidenceHighlightIds |-> ev]

InsightsObj(th, wc, ppc) ==
  [kind |-> "object", themes |-> th, wordCloud |-> wc, problemPatternsChart |-> ppc]
EmptyInsights == InsightsObj(Undefined, Undefined, Undefined)

ThemesSample ==
  Arr(<< ApiTheme("Trust", Arr(<<"h1">>)), ApiTheme("Speed", Arr(<<"h9">>)),
         ApiTheme("Noise", Undefined) >>)

InsightsObjects ==
  { EmptyInsights,
    InsightsObj(ThemesSample, Undefined, Undefined),
    InsightsObj(ThemesSample, Arr(<< [word |-> "slow", count |-> 2] >>),
                Arr(<< [theme |-> "Trust", frequency |-> 1, intensity |-> 3] >>)) }

InsightsResponses ==
  { Response(t, Undefined) : t \in {"invalid", "empty", "null"} }
    \cup { Response("object", j) : j \in InsightsObjects }

\* Math.random().toString(36).substr(2, 9): the ids it can give.
RandomIds == {"r4nd0m1d5", "q7x"}

-----------------------------------------------------------------------------
\* Normalisation to ResearchData (src/services/geminiService.ts:428-494).

\* highlights.find((h) => h.id === hId): the index of the first match, 0 if none
FindHighlight(highlights, hId) ==
  LET hits == { k \in 1..Len(highlights) : highlights[k].id = hId }
  IN  IF hits = {} THEN 0 ELSE CHOOSE k \in hits : \A m \in hits : k <= m

\* x || fallback for strings
OrString(x, fallback) == IF x # "" THEN x ELSE fallback

\* The lookup without the placeholder: highlight?.text || "".
ItemTextNoPlaceholder(highlights, hId) ==
  LET k == FindHighlight(highlights, hId)
  IN  IF k # 0 THEN highlights[k].text ELSE ""

\* The text of a cluster item: the quote, or the placeholder.
ItemText(highlights, hId) ==
  LET k == FindHighlight(highlights, hId)
  IN  IF k # 0 THEN highlights[k].text ELSE "Missing quote..."

\* ensureArray(cluster.highlightIds).map((hId) => ({...}))
clusterItems(cluster, highlights, rnd) ==
  LET hIds == ensureArray(cluster.highlightIds)
  IN  [ k \in 1..Len(hIds) |->
          [ id |-> OrString(hIds[k], rnd),
            text |-> ItemText(highlights, hIds[k]),
            highlightIds |-> << hIds[k] >>,
            type |-> "note" ] ]

\* apiClusters.map((cluster, index) => ({...})), index counted from 0
uiClusters(affinity, highlights, rnd) ==
  LET apiClusters == ensureArray(affinity.items)
  IN  [ k \in 1..Len(apiClusters) |->
          [ id |-> OrString(apiClusters[k].id, "cluster-" \o ToString(k - 1)),
            title |-> OrString(apiClusters[k].title, "Untitled Cluster"),
            items |-> clusterItems(apiClusters[k], highlights, rnd),
            color |-> OrString(apiClusters[k].color, "#E2E8F0"),
            x |-> 50 + ((k - 1) % 3) * 350,
            y |-> 50 + ((k - 1) \div 3) * 400,
            width |-> 300,
            height |-> 340 ] ]

\* t.evidenceHighlightIds?.[0] || ""
FirstEvidence(t) ==
  LET ev == ensureArray(t.evidenceHighlightIds)
  IN  IF Len(ev) > 0 THEN ev[1] ELSE ""

\* ensureArray(insightsJson.themes).map((t) => ({...}))
insightsTable(insights, highlights) ==
  LET themes == ensureArray(insights.themes)
  IN  [ k \in 1..Len(themes) |->
          LET q == FirstEvidence(themes[k])
              h == FindHighlight(highlights, q)
          IN  [ theme |-> themes[k].theme,
                quoteId |-> q,
                text |-> IF q = "" THEN ""
                         ELSE IF h # 0 THEN OrString(highlights[h].text, "Quote not found")
                         ELSE "Quote not found" ] ]

\* The ResearchData returned, by the fields that depend on the three stages'
\* transcript, tags, highlights, clusters and insights (the summary and the
\* remaining insight lists are copied from mainJson in the same way).
ResearchData(main, affinity, insights, rnd) ==
  LET highlights == ensureArray(main.highlights)
  IN  [ transcript |-> OrEmpty(main.transcript),
        tags |-> ensureArray(main.tags),
        highlights |-> ensureArray(main.highlights),
        clusters |-> uiClusters(affinity, highlights, rnd),
        insightsTable |-> insightsTable(insights, highlights),
        wordCloud |-> ensureArray(insights.wordCloud),
        problemPatternsChart |-> ensureArray(insights.problemPatternsChart) ]

-----------------------------------------------------------------------------
\* retryOperation (src/services/geminiService.ts:10-35).

Stages == {"op", "upload", "main", "affinity", "insights"}

Ok(v)    == [kind |-> "ok", value |-> v]
Throw(e) == [kind |-> "throw", error |-> e]
Pending  == [kind |-> "pending"]

\* What one invocation of the wrapped operation can do.
Outcomes(st) ==
  LET values == CASE st = "upload"   -> UploadResponses
                  [] st = "main"     -> MainResponses
                  [] st = "affinity" -> AffinityResponses
                  [] st = "insights" -> InsightsResponses
                  [] OTHER           -> { [v |-> "value"] }
  IN  { Ok(v) : v \in values } \cup { Throw(e) : e \in ApiErrors }

\* retryOperation(operation, n, d, name) is called: the first loop test.
RetryStart(st, n, d) ==
  /\ stage' = st
  /\ retries' = n
  /\ delay' = d
  /\ i' = 0
  /\ lastError' = NoError
  /\ sleeps' = <<>>
  /\ opLog' = <<>>
  /\ IF LoopContinues(0, n)
        THEN rpc' = "call" /\ rresult' = Pending
        ELSE rpc' = "rejected" /\ rresult' = Throw(NoError)

\* try { return await operation() } catch (error) { lastError = error; ... }
RetryCall ==
  /\ rpc = "call"
  /\ \E o \in Outcomes(stage) :
       /\ opLog' = Append(opLog, o)
       /\ attempts' = [attempts EXCEPT ![stage] = @ + 1]
       /\ IF o.kind = "ok"
            THEN /\ rpc' = "resolved"
                 /\ rresult' = o
                 /\ UNCHANGED lastError
            ELSE /\ lastError' = o.error
                 /\ IF NonRetryable(StatusOf(o.error))
                      THEN rpc' = "rejected" /\ rresult' = Throw(o.error)
                      ELSE rpc' = "sleep" /\ UNCHANGED rresult
  /\ UNCHANGED <<retries, delay, i, sleeps>>
  /\ UNCHANGED <<pipeVars, appVars, mergeVars, uiVars>>

\* await sleep(delay * Math.pow(2, i)); i++; the loop test; throw lastError
RetrySleep ==
  /\ rpc = "sleep"
  /\ sleeps' = Append(sleeps, Backoff(delay, i))
  /\ i' = i + 1
  /\ IF LoopContinues(i + 1, retries)
        THEN rpc' = "call" /\ UNCHANGED rresult
        ELSE rpc' = "rejected" /\ rresult' = Throw(lastError)
  /\ UNCHANGED <<retries, delay, lastError, opLog, attempts>>
  /\ UNCHANGED <<pipeVars, appVars, mergeVars, uiVars>>

-----------------------------------------------------------------------------
\* analyzeResearchFile (src/services/geminiService.ts:226-508) and the
\* handlers handleAddFiles passes to it and chains on it (src/types.ts:2188-2253).

\* The message of the Error the outer catch throws for a quota failure.
QuotaMessage ==
  "Gemini free-tier quota exceeded (input tokens). "
    \o "This usually happens when sending a large video. "
    \o "Try: (1) upload audio (.mp3) extracted from the video, "
    \o "(2) upload transcript (.txt), or (3) upload a shorter clip."

TypeError == NewError("TypeError: Cannot read properties of null")

FileSizes == {InlineLimit, InlineLimit + 1, FileSizeLimit, FileSizeLimit + 1}

\* The onProgress callback of handleAddFiles, the file being present:
\* { ...f, status: status, progress: progress || f.progress }
Report(pf, status, progress) ==
  [pf EXCEPT !.status = status, !.progress = IF progress # 0 THEN progress ELSE @]

\* The outer catch without the quota rewrite: throw error.
CaughtRaw(error) == error

\* catch (error) { if (isQuota429(error)) throw new Error(<quota>); throw error }
Caught(error) == IF isQuota429(error) THEN NewError(QuotaMessage) ELSE error

Catch(error) ==
  /\ result' = Throw(Caught(error))
  /\ pc' = "done"

\* How the retryOperation that just settled ended.
StageSummary ==
  [ kind |-> rresult.kind,
    error |-> IF rresult.kind = "throw" THEN rresult.error ELSE NoError,
    all429 |-> \A k \in 1..Len(opLog) :
                 opLog[k].kind = "throw" /\ StatusOf(opLog[k].error) = 429 ]

Settled == rpc \in {"resolved", "rejected"}

\* Lines 232-254 and 310-311: the checks before try, the first progress
\* reports, and the call of upload (large file) or of the reader (small file).
Start ==
  /\ pc = "start"
  /\ \E apiKey \in BOOLEAN :
       IF ~apiKey
         THEN /\ result' = Throw(NewError("API Key not found."))
              /\ pc' = "done"
              /\ UNCHANGED <<retryVars, stage, reported, pfile>>
         ELSE IF fileSize > FileSizeLimit
         THEN /\ result' = Throw(NewError("File exceeds 500MB limit."))
              /\ pc' = "done"
              /\ UNCHANGED <<retryVars, stage, reported, pfile>>
         ELSE IF fileSize > InlineLimit
         THEN /\ reported' = reported \cup {"uploading"}
              /\ pfile' = Report(pfile, "uploading", 10)
              /\ RetryStart("upload", UploadRetries, UploadDelay)
              /\ pc' = "awaitUpload"
              /\ UNCHANGED <<result, attempts>>
         ELSE /\ reported' = reported \cup {"uploading"}
              /\ pfile' = Report(Report(pfile, "uploading", 10), "uploading", 50)
              /\ pc' = "readFile"
              /\ UNCHANGED <<retryVars, stage, result>>
  /\ UNCHANGED <<fileSize, fileState, attempt, mainJson, affinityJson, insightsJson, stageEnd>>
  /\ UNCHANGED <<projectError, mergeVars, uiVars>>

\* The main call is issued (line 343).
StartMain ==
  /\ RetryStart("main", StageRetries, StageDelay)
  /\ pc' = "awaitMain"
  /\ UNCHANGED <<result, attempts>>

\* Lines 311-312: fileToGenerativePart settles.
ReadFile ==
  /\ pc = "readFile"
  /\ \E o \in {"ok", "Failed to read file. The file might be corrupted or unreadable.",
                "File reading error. Please check if the file is accessible."} :
       IF o = "ok"
         THEN /\ reported' = reported \cup {"processing"}
              /\ pfile' = Report(pfile, "processing", 0)
              /\ StartMain
         ELSE /\ Catch(NewError(o))
              /\ UNCHANGED <<retryVars, stage, reported, pfile>>
  /\ UNCHANGED <<fileSize, fileState, attempt, mainJson, affinityJson, insightsJson, stageEnd>>
  /\ UNCHANGED <<projectError, mergeVars, uiVars>>

\* Lines 265-289: the upload settled; "uploaded" is reported, the handle is
\* checked and the first poll is issued.
AfterUpload ==
  /\ pc = "awaitUpload" /\ Settled
  /\ stageEnd' = [stageEnd EXCEPT !["upload"] = StageSummary]
  /\ IF rpc = "rejected"
       THEN /\ Catch(rresult.error)
            /\ UNCHANGED <<reported, pfile, attempt>>
       ELSE /\ reported' = reported \cup {"uploaded"}
            /\ pfile' = Report(pfile, "uploaded", 100)
            /\ IF ~rresult.value.uri
                 THEN /\ Catch(NewError("Gemini File Upload failed: missing fileUri."))
                      /\ UNCHANGED attempt
                 ELSE IF ~rresult.value.name
                 THEN /\ Catch(NewError("Gemini File Upload failed: missing name."))
                      /\ UNCHANGED attempt
                 ELSE /\ attempt' = 1
                      /\ IF 1 > MaxPolls
                           THEN Catch(NewError("File processing timed out."))
                           ELSE pc' = "poll" /\ UNCHANGED result
  /\ UNCHANGED <<retryVars, stage, fileSize, fileState, mainJson, affinityJson, insightsJson>>
  /\ UNCHANGED <<projectError, mergeVars, uiVars>>

\* Lines 289-307: ai.files.get settles.
Poll ==
  /\ pc = "poll"
  /\ \/ \E state \in FileStates :
          /\ fileState' = state
          /\ CASE state = "ACTIVE" ->
                    /\ reported' = reported \cup {"processing"}
                    /\ pfile' = Report(pfile, "processing", 0)
                    /\ attempt' = 0      \* the block of `attempt` is left
                    /\ StartMain
               [] state = "FAILED" ->
                    /\ Catch(NewError("File processing failed on Gemini side."))
                    /\ UNCHANGED <<retryVars, stage, reported, pfile, attempt>>
               [] OTHER ->
                    /\ reported' = reported \cup {"processing"}
                    /\ pfile' = Report(pfile, "processing", 0)
                    /\ pc' = "pollSleep"
                    /\ UNCHANGED <<retryVars, stage, result, attempt>>
     \/ \E e \in ApiErrors :
          /\ Catch(e)
          /\ UNCHANGED <<retryVars, stage, reported, pfile, attempt, fileState>>
  /\ UNCHANGED <<fileSize, mainJson, affinityJson, insightsJson, stageEnd>>
  /\ UNCHANGED <<projectError, mergeVars, uiVars>>

\* The poll loop bounded as `while (PROCESSING && attempts < N)`: when the
\* polls are used up the loop is left and the main call is issued.
PollSleepNoTimeout ==
  /\ pc = "pollSleep"
  /\ attempt' = attempt + 1
  /\ IF attempt + 1 > MaxPolls
       THEN StartMain
       ELSE pc' = "poll" /\ UNCHANGED <<retryVars, stage, result>>
  /\ UNCHANGED <<fileSize, fileState, mainJson, affinityJson, insightsJson,
                 stageEnd, reported>>
  /\ UNCHANGED <<appVars, mergeVars, uiVars>>

\* The poll loop without its counter: while (!isActive) { get; sleep }.
PollSleepForever ==
  /\ pc = "pollSleep"
  /\ pc' = "poll"
  /\ UNCHANGED <<retryVars, stage, result, attempt>>
  /\ UNCHANGED <<fileSize, fileState, mainJson, affinityJson, insightsJson,
                 stageEnd, reported>>
  /\ UNCHANGED <<appVars, mergeVars, uiVars>>

\* Lines 301 and 283-287: sleep(5000) is over, attempt++ and the timeout test.
PollSleep ==
  /\ pc = "pollSleep"
  /\ attempt' = attempt + 1
  /\ IF attempt + 1 > MaxPolls
       THEN Catch(NewError("File processing timed out."))
       ELSE pc' = "poll" /\ UNCHANGED result
  /\ UNCHANGED <<retryVars, stage, fileSize, fileState, mainJson, affinityJson, insightsJson,
                 stageEnd, reported>>
  /\ UNCHANGED <<appVars, mergeVars, uiVars>>

\* The main stage wrapped like the best-effort stages: a failed or unparsable
\* main response is replaced by {} and the pipeline goes on.
AfterMainSwallow ==
  /\ pc = "awaitMain" /\ Settled
  /\ stageEnd' = [stageEnd EXCEPT !["main"] = StageSummary]
  /\ mainJson' = IF rpc = "resolved" /\ rresult.value.text = "object"
                   THEN rresult.value.json ELSE EmptyMain
  /\ RetryStart("affinity", StageRetries, StageDelay)
  /\ pc' = "awaitAffinity"
  /\ UNCHANGED <<result, attempts>>
  /\ UNCHANGED <<fileSize, fileState, attempt, affinityJson, insightsJson, reported>>
  /\ UNCHANGED <<appVars, mergeVars, uiVars>>

\* Lines 353-385: the main call settled; its text is parsed and the affinity
\* call is issued.
AfterMain ==
  /\ pc = "awaitMain" /\ Settled
  /\ stageEnd' = [stageEnd EXCEPT !["main"] = StageSummary]
  /\ IF rpc = "rejected"
       THEN /\ Catch(rresult.error)
            /\ UNCHANGED <<retryVars, stage, mainJson>>
       ELSE IF ParseThrows(rresult.value)
       THEN /\ Catch(NewError("Failed to parse AI response (Step 1). Response might be truncated."))
            /\ UNCHANGED <<retryVars, stage, mainJson>>
       ELSE /\ mainJson' = Parse(rresult.value, EmptyMain)
            /\ IF mainJson'.kind = "null"
                 THEN /\ Catch(TypeError)
                      /\ UNCHANGED <<retryVars, stage>>
                 ELSE /\ RetryStart("affinity", StageRetries, StageDelay)
                      /\ pc' = "awaitAffinity"
                      /\ UNCHANGED <<result, attempts>>
  /\ UNCHANGED <<fileSize, fileState, attempt, affinityJson, insightsJson, reported>>
  /\ UNCHANGED <<appVars, mergeVars, uiVars>>

\* A best-effort stage's JSON declared without its default: nothing is kept
\* when the stage fails.
StageJsonNoDefault(default, emptyObject) ==
  IF rpc = "resolved" /\ ~ParseThrows(rresult.value)
    THEN Parse(rresult.value, emptyObject)
    ELSE Null

\* A best-effort stage's JSON: the parsed response, or the default kept when
\* retryOperation rejected or JSON.parse threw (lines 367-395, 398-426).
StageJson(default, emptyObject) ==
  IF rpc = "resolved" /\ ~ParseThrows(rresult.value)
    THEN Parse(rresult.value, emptyObject)
    ELSE default

\* Lines 385-416: the affinity call settled; the insights call is issued.
AfterAffinity ==
  /\ pc = "awaitAffinity" /\ Settled
  /\ stageEnd' = [stageEnd EXCEPT !["affinity"] = StageSummary]
  /\ affinityJson' = StageJson(affinityJson, EmptyAffinity)
  /\ RetryStart("insights", StageRetries, StageDelay)
  /\ pc' = "awaitInsights"
  /\ UNCHANGED <<result, attempts>>
  /\ UNCHANGED <<fileSize, fileState, attempt, mainJson, insightsJson, reported>>
  /\ UNCHANGED <<appVars, mergeVars, uiVars>>

\* Lines 416-494: the insights call settled; the ResearchData is built and
\* returned (a null affinityJson or insightsJson makes the build throw).
AfterInsights ==
  /\ pc = "awaitInsights" /\ Settled
  /\ stageEnd' = [stageEnd EXCEPT !["insights"] = StageSummary]
  /\ insightsJson' = StageJson(insightsJson, EmptyInsights)
  /\ IF affinityJson.kind = "null" \/ insightsJson'.kind = "null"
       THEN Catch(TypeError)
       ELSE /\ \E rnd \in RandomIds :
                 result' = Ok(ResearchData(mainJson, affinityJson, insightsJson', rnd))
            /\ pc' = "done"
  /\ UNCHANGED <<retryVars, stage, fileSize, fileState, attempt, mainJson, affinityJson, reported>>
  /\ UNCHANGED <<appVars, mergeVars, uiVars>>

NoData == [kind |-> "none"]

\* src/types.ts:2204-2238: analyzeResearchFile resolved, the file being present.
FileAnalysed ==
  /\ pc = "done" /\ result.kind = "ok"
  /\ pfile' = [pfile EXCEPT !.status = "uploaded", !.progress = 100,
                            !.analysisData = [kind |-> "data", data |-> result.value]]
  /\ projectError' = ""
  /\ pc' = "applied"
  /\ UNCHANGED <<retryVars, stage, fileSize, fileState, attempt, mainJson, affinityJson,
                 insightsJson, stageEnd, reported, result>>
  /\ UNCHANGED <<mergeVars, uiVars>>

\* src/types.ts:2240-2252: analyzeResearchFile rejected, the file being present.
FileFailed ==
  /\ pc = "done" /\ result.kind = "throw"
  /\ pfile' = [pfile EXCEPT !.status = "error", !.error = result.error.msg]
  /\ projectError' = result.error.msg
  /\ pc' = "applied"
  /\ UNCHANGED <<retryVars, stage, fileSize, fileState, attempt, mainJson, affinityJson,
                 insightsJson, stageEnd, reported, result>>
  /\ UNCHANGED <<mergeVars, uiVars>>

-----------------------------------------------------------------------------
\* The ID remap and merge of analyzeResearchFile in src/unnamed/part_000:475-562,
\* applied to the AI output of two files.

Files == {1, 2}

\* Math.random().toString(36).substr(2, 5): the prefixes it can give.  Two
\* calls are independent draws.
Prefixes == {"ab12d", "k3"}

SeqsUpTo(S, n) == UNION { [1..m -> S] : m \in 0..n }

RawTags == SeqsUpTo({ [id |-> t] : t \in {"t1", "t2"} }, MaxTags)

RawHighlights == SeqsUpTo({ [id |-> "h1", tagId |-> t] : t \in {"t1", "t9"} }, 1)

RawTheme(id, subs) == [id |-> id, subclusters |-> subs]
RawSub(id, hIds) == [id |-> id, highlightIds |-> hIds]

RawThemes ==
  { <<>>,
    << RawTheme("c1", Arr(<< RawSub("s1", Arr(<<"h1", "h9">>)) >>)) >>,
    << RawTheme("", Undefined), RawTheme("c1", Arr(<< RawSub("c1", Undefined) >>)) >> }

RawOutputs == [tags : RawTags, highlights : RawHighlights, themes : RawThemes]

NoOutput == [tags |-> <<>>, highlights |-> <<>>, themes |-> <<>>]

\* `${filePrefix}_${id}`
Prefixed(prefix, id) == prefix \o "_" \o id

\* idMap.get(id) || id, for the map filled from the raw items
Remapped(rawItems, prefix, id) ==
  IF \E k \in 1..Len(rawItems) : rawItems[k].id = id
    THEN Prefixed(prefix, id)
    ELSE id

\* rawTags.map((t) => ({ ...t, id: newId }))
uniqueTags(rawTags, prefix) ==
  [ k \in 1..Len(rawTags) |-> [rawTags[k] EXCEPT !.id = Prefixed(prefix, @)] ]

\* rawHighlights.map((h) => ({ ...h, id: newId, tagId: tagIdMap.get(h.tagId) || h.tagId }))
uniqueHighlights(rawHighlights, rawTags, prefix) ==
  [ k \in 1..Len(rawHighlights) |->
      [rawHighlights[k] EXCEPT !.id = Prefixed(prefix, @),
                               !.tagId = Remapped(rawTags, prefix, @)] ]

\* ensureArray(theme.subclusters).map((sub) => ({...}))
subclusterItems(theme, rawHighlights, prefix) ==
  LET subs == ensureArray(theme.subclusters)
  IN  [ k \in 1..Len(subs) |->
          LET hIds == ensureArray(subs[k].highlightIds)
          IN  [ id |-> Prefixed(prefix, subs[k].id),
                type |-> "subcluster",
                highlightIds |-> [ m \in 1..Len(hIds) |->
                                     Remapped(rawHighlights, prefix, hIds[m]) ] ] ]

\* rawThemes.map((theme, i) => ({...})); rnd is Math.random().toString(36)
clusters(rawThemes, rawHighlights, prefix, rnd) ==
  [ k \in 1..Len(rawThemes) |->
      [ id |-> Prefixed(prefix, OrString(rawThemes[k].id, rnd)),
        items |-> subclusterItems(rawThemes[k], rawHighlights, prefix),
        x |-> 50 + ((k - 1) % 3) * 350,
        y |-> 50 + ((k - 1) \div 3) * 350,
        width |-> 320,
        height |-> 340 ] ]

\* One file's AI output is remapped with a fresh prefix and emitted.
RemapMerge(f) ==
  /\ mpc[f] = "raw"
  /\ \E r \in RawOutputs, prefix \in Prefixes, rnd \in {"0.4fzyo82mvyr", "0.9x1"} :
       /\ raw' = [raw EXCEPT ![f] = r]
       /\ filePrefix' = [filePrefix EXCEPT ![f] = prefix]
       /\ merged' = [merged EXCEPT ![f] =
                       [ tags |-> uniqueTags(r.tags, prefix),
                         highlights |-> uniqueHighlights(r.highlights, r.tags, prefix),
                         clusters |-> clusters(r.themes, r.highlights, prefix, rnd) ]]
  /\ mpc' = [mpc EXCEPT ![f] = "merged"]
  /\ UNCHANGED <<retryVars, pipeVars, appVars, uiVars>>

-----------------------------------------------------------------------------
\* App (src/types.ts:2034-2566): projectState, history and the handlers.
\* Project and file ids are Math.random() strings; they are modelled by fresh
\* numbers.  currentScreen and isProcessing are left out: no handler modelled
\* here reads them.

\* What the App handlers leave alone: the service, the one-file handlers and
\* the canvas.
serviceVars == <<retryVars, pipeVars, pfile, mergeVars, canvasVars>>

DefaultName == "New Research Project"

\* The names the user types into the project name field.
ProjectNames == {"Interviews"}

\* INITIAL_DATA, by its tags and highlights.
InitialData == [tags |-> <<>>, highlights |-> <<>>]

T2 == [id |-> "t2", label |-> "Reason", color |-> "#eee"]
H2 == [id |-> "h2", text |-> "Maybe.", tagId |-> "t2"]

\* What analyzeResearchFile resolves with, by its tags and highlights: two
\* results whose tags have the same label and different ids.
AnalysisResults ==
  { [tags |-> <<T1>>, highlights |-> <<H1>>],
    [tags |-> <<T2>>, highlights |-> <<H2>>] }

Data(d) == [kind |-> "data", data |-> d]

\* error.message of what analyzeResearchFile rejects with
ErrorMessages == {QuotaMessage, "File processing timed out.", ""}

\* t.common.error
CommonError == "Error"

\* The (status, progress) pairs analyzeResearchFile passes to onProgress.
ProgressEvents ==
  { <<"uploading", 10>>, <<"uploading", 50>>, <<"uploaded", 100>>, <<"processing", 0>> }

SavedProject(id, name, fileCount, data) ==
  [id |-> id, name |-> name, fileCount |-> fileCount, data |-> data]

NewProjectFile(id) ==
  [id |-> id, status |-> "uploading", progress |-> 0, analysisData |-> NoData, error |-> ""]

\* The ids of the files whose analyzeResearchFile promise is pending.
InFlight == { f \in 1..Len(promises) : promises[f] = Pending }

\* prevState.files.find(f => f.id === id)
Present(fs, id) == \E k \in 1..Len(fs) : fs[k].id = id

\* list.filter(p => p.id !== id)
RemoveById(list, id) ==
  LET Keep(p) == p.id # id
  IN  SelectSeq(list, Keep)

\* list.slice(0, n)
Slice(list, n) == SubSeq(list, 1, IF Len(list) < n THEN Len(list) ELSE n)

\* prevHistory.findIndex(p => p.id === id), counted from 1; 0 when absent
FindIndex(list, id) ==
  LET hits == { k \in 1..Len(list) : list[k].id = id }
  IN  IF hits = {} THEN 0 ELSE CHOOSE k \in hits : \A m \in hits : k <= m

\* The save that does not filter the old entry out: [projectToSave, ...prevHistory].slice(0, 10)
SaveToHistoryUnfiltered(list, project) ==
  Slice(<<project>> \o list, HistoryCap)

\* [projectToSave, ...others].slice(0, 10)
SaveToHistory(list, project) ==
  Slice(<<project>> \o RemoveById(list, project.id), HistoryCap)

\* handleStartAnalysis
handleStartAnalysis ==
  /\ IF projectId = 0
       THEN /\ nextId < MaxProjects
            /\ nextId' = nextId + 1
            /\ history' = <<SavedProject(nextId + 1, DefaultName, 0, InitialData)>> \o history
            /\ projectId' = nextId + 1
            /\ projectName' = DefaultName
       ELSE UNCHANGED <<nextId, history, projectId, projectName>>
  /\ currentScreen' = "UPLOAD"
  /\ UNCHANGED <<confirmation, deleted, edits, filesVars, projectError, serviceVars>>

\* The effect of handleNewProject on history and projectState.
NewProject(prevHistory) ==
  /\ nextId < MaxProjects
  /\ nextId' = nextId + 1
  /\ history' = <<SavedProject(nextId + 1, DefaultName, 0, InitialData)>> \o prevHistory
  /\ projectId' = nextId + 1
  /\ currentScreen' = "UPLOAD"
  /\ files' = <<>>
  /\ projectData' = NoData
  /\ projectName' = DefaultName
  /\ projectError' = ""

\* handleNewProject
handleNewProject ==
  /\ NewProject(history)
  /\ UNCHANGED <<confirmation, deleted, edits, promises, nextFileId, serviceVars>>

\* handleUpdateProjectName(name)
handleUpdateProjectName ==
  /\ edits < MaxEdits
  /\ edits' = edits + 1
  /\ \E name \in ProjectNames :
       LET fresh == projectId = 0
           id == IF fresh THEN nextId + 1 ELSE projectId
           existingIndex == FindIndex(history, id)
       IN  /\ fresh => nextId < MaxProjects
           /\ nextId' = IF fresh THEN nextId + 1 ELSE nextId
           /\ projectId' = id
           /\ projectName' = name
           /\ history' =
                IF existingIndex > 0
                  THEN [history EXCEPT ![existingIndex].name = name]
                  ELSE <<SavedProject(id, name, Len(files), InitialData)>> \o history
  /\ UNCHANGED <<currentScreen, confirmation, deleted, filesVars, projectError, serviceVars>>

\* handleAddFiles([file], projectName): the file is listed and its analysis
\* is started.
handleAddFiles ==
  /\ nextFileId < MaxFiles
  /\ nextFileId' = nextFileId + 1
  /\ files' = Append(files, NewProjectFile(nextFileId + 1))
  /\ promises' = Append(promises, Pending)
  /\ \E name \in ProjectNames \cup {projectName} : projectName' = name
  /\ IF projectId = 0
       THEN /\ nextId < MaxProjects
            /\ nextId' = nextId + 1
            /\ projectId' = nextId + 1
       ELSE UNCHANGED <<nextId, projectId>>
  /\ UNCHANGED <<currentScreen, history, confirmation, deleted, edits, projectData, projectError,
                 serviceVars>>

\* handleRemoveFile(fileId)
handleRemoveFile ==
  /\ \E k \in 1..Len(files) : files' = RemoveById(files, files[k].id)
  /\ UNCHANGED <<histVars, projectData, promises, nextFileId, projectError, serviceVars>>

\* files.map(f => f.id === id ? { ...f, status, progress: progress || f.progress } : f)
ProgressUpdate(fs, id, status, progress) ==
  [ k \in 1..Len(fs) |->
      IF fs[k].id = id THEN Report(fs[k], status, progress) ELSE fs[k] ]

\* src/types.ts:2190-2202: analyzeResearchFile reports progress for a file.
FileProgress ==
  /\ \E f \in InFlight, ev \in ProgressEvents :
       files' = IF Present(files, f)
                  THEN ProgressUpdate(files, f, ev[1], ev[2])
                  ELSE files
  /\ UNCHANGED <<histVars, projectData, promises, nextFileId, projectError, serviceVars>>

\* The updates of the completion handler (src/types.ts:2206-2237).
ApplyCompletion(f, analyzedData) ==
  /\ files' = [ k \in 1..Len(files) |->
                  IF files[k].id = f
                    THEN [files[k] EXCEPT !.status = "uploaded", !.progress = 100,
                                          !.analysisData = Data(analyzedData)]
                    ELSE files[k] ]
  /\ history' = SaveToHistory(history,
                  SavedProject(projectId, projectName, Len(files), analyzedData))
  /\ projectData' = Data(analyzedData)
  /\ projectError' = ""

\* The completion handler without the test that the file is still listed.
CompletionUnguarded(f, analyzedData) == ApplyCompletion(f, analyzedData)

\* The completion handler that keeps the active document once there is one.
CompletionFirstWins(f, analyzedData) ==
  IF Present(files, f)
    THEN /\ ApplyCompletion(f, analyzedData)!1
         /\ ApplyCompletion(f, analyzedData)!2
         /\ projectData' = IF projectData = NoData THEN Data(analyzedData) ELSE projectData
         /\ projectError' = ""
    ELSE UNCHANGED <<files, history, projectData, projectError>>

\* src/types.ts:2204-2238
Completion(f, analyzedData) ==
  IF Present(files, f)
    THEN ApplyCompletion(f, analyzedData)
    ELSE UNCHANGED <<files, history, projectData, projectError>>

\* analyzeResearchFile resolves for a file.
FileCompletes ==
  /\ \E f \in InFlight, analyzedData \in AnalysisResults :
       /\ promises' = [promises EXCEPT ![f] = Ok(analyzedData)]
       /\ Completion(f, analyzedData)
  /\ UNCHANGED <<projectId, projectName, currentScreen, confirmation, deleted, nextId, edits,
                 nextFileId,
                 serviceVars>>

\* The catch handler that records the failure on the project alone.
FailureProjectOnly(f, message) ==
  IF Present(files, f)
    THEN /\ projectError' = OrString(message, CommonError)
         /\ UNCHANGED files
    ELSE UNCHANGED <<files, projectError>>

\* src/types.ts:2240-2252
Failure(f, message) ==
  IF Present(files, f)
    THEN /\ files' = [ k \in 1..Len(files) |->
                         IF files[k].id = f
                           THEN [files[k] EXCEPT !.status = "error", !.error = message]
                           ELSE files[k] ]
         /\ projectError' = OrString(message, CommonError)
    ELSE UNCHANGED <<files, projectError>>

\* analyzeResearchFile rejects for a file.
FileRejects ==
  /\ \E f \in InFlight, message \in ErrorMessages :
       /\ promises' = [promises EXCEPT ![f] = Throw(NewError(message))]
       /\ Failure(f, message)
  /\ UNCHANGED <<histVars, projectData, nextFileId, serviceVars>>

\* handleLoadProject(project), the project picked from the history list
handleLoadProject ==
  /\ edits < MaxEdits
  /\ edits' = edits + 1
  /\ \E k \in 1..Len(history) :
       /\ projectId' = history[k].id
       /\ projectData' = Data(history[k].data)
       /\ projectName' = history[k].name
  /\ currentScreen' = "TRANSCRIPT"
  /\ files' = <<>>
  /\ projectError' = ""
  /\ UNCHANGED <<history, confirmation, deleted, nextId, promises, nextFileId, serviceVars>>

\* handleDeleteProject(projectId), for a project of the history list
handleDeleteProject ==
  /\ edits < MaxEdits
  /\ edits' = edits + 1
  /\ \E k \in 1..Len(history) : confirmation' = history[k].id
  /\ UNCHANGED <<projectId, projectName, currentScreen, history, deleted, nextId, filesVars,
                 projectError,
                 serviceVars>>

\* The confirm button that filters the history and leaves projectState alone.
executeDeletionKeepsActive ==
  /\ confirmation # 0
  /\ history' = RemoveById(history, confirmation)
  /\ UNCHANGED <<projectId, projectName, currentScreen, nextId, filesVars, projectError>>
  /\ confirmation' = 0
  /\ deleted' = Append(deleted, [ id |-> confirmation,
                                  active |-> projectId = confirmation,
                                  pending |-> InFlight ])
  /\ UNCHANGED <<edits, serviceVars>>

\* executeDeletion: the confirm button of the dialog
executeDeletion ==
  /\ confirmation # 0
  /\ IF projectId = confirmation
       THEN /\ NewProject(RemoveById(history, confirmation))
            /\ UNCHANGED <<promises, nextFileId>>
       ELSE /\ history' = RemoveById(history, confirmation)
            /\ UNCHANGED <<projectId, projectName, currentScreen, nextId, filesVars, projectError>>
  /\ confirmation' = 0
  /\ deleted' = Append(deleted, [ id |-> confirmation,
                                  active |-> projectId = confirmation,
                                  pending |-> InFlight ])
  /\ UNCHANGED <<edits, serviceVars>>

\* navigateTo(screen)
navigateTo(screen) ==
  /\ currentScreen' = screen
  /\ projectError' = ""
  /\ UNCHANGED <<projectId, projectName, history, confirmation, deleted, nextId, edits,
                 filesVars, serviceVars>>

\* handleContinueToTranscript
handleContinueToTranscript == navigateTo("TRANSCRIPT")

\* The screens of TopNav's analysisSteps.
analysisSteps == {"UPLOAD", "TRANSCRIPT", "AFFINITY", "INSIGHTS", "SUMMARY"}

\* isSetupPhase (PROCESSING is never set as the current screen)
isSetupPhase == currentScreen \in {"START", "UPLOAD", "PROCESSING"}

\* TopNav.isStepDisabled(stepScreen), with hasData = !!projectState.data
isStepDisabled(stepScreen) ==
  IF stepScreen = "UPLOAD" THEN FALSE
  ELSE IF projectData # NoData THEN FALSE
  ELSE IF isSetupPhase THEN TRUE
  ELSE FALSE

\* UploadScreen.hasCompletedFiles
hasCompletedFiles == \E k \in 1..Len(files) : files[k].status = "uploaded"

\* StartScreen: the start button
StartScreen ==
  /\ currentScreen = "START"
  /\ handleStartAnalysis

\* UploadScreen: files are added and removed; the continue button is
\* rendered when hasCompletedFiles.
UploadScreen ==
  /\ currentScreen = "UPLOAD"
  /\ \/ handleAddFiles
     \/ handleRemoveFile
     \/ hasCompletedFiles /\ handleContinueToTranscript

\* TopNav, rendered on every screen but START: a step that is not disabled
\* is clicked.
TopNav ==
  /\ currentScreen # "START"
  /\ \E step \in analysisSteps : ~isStepDisabled(step) /\ navigateTo(step)

\* The left menu of Layout, rendered on every screen but START: the new
\* project button (pressed while fewer than MaxMenuProjects ids were drawn)
\* and the project list.
LayoutMenu ==
  /\ currentScreen # "START"
  /\ \/ nextId < MaxMenuProjects /\ handleNewProject
     \/ handleLoadProject

\* The promise of an analysis whose page was unloaded: no handler will run.
Abandoned == [kind |-> "abandoned"]

\* The page is reloaded.  The effects at src/types.ts:2081-2093 have stored
\* id, currentScreen, data and projectName of projectState and the history;
\* the initialisers (2035-2070) take them back with files: [], data: null,
\* error: null, and the dialog state starts as null.
Reload ==
  /\ files' = <<>>
  /\ projectData' = NoData
  /\ projectError' = ""
  /\ confirmation' = 0
  /\ promises' = [ f \in 1..Len(promises) |->
                     IF promises[f] = Pending THEN Abandoned ELSE promises[f] ]
  /\ UNCHANGED <<projectId, projectName, currentScreen, history, deleted, nextId, edits,
                 nextFileId, serviceVars>>

\* onCancel of the dialog: setConfirmation(null)
cancelDeletion ==
  /\ confirmation # 0
  /\ confirmation' = 0
  /\ UNCHANGED <<projectId, projectName, currentScreen, history, deleted, nextId, edits,
                 filesVars,
                 projectError, serviceVars>>

-----------------------------------------------------------------------------
\* TranscriptScreen (src/types.ts:612-702) and handleAddHighlight.

\* [...data.tags, ...files.flatMap(f => f.analysisData?.tags)]: the order in
\* which allTagsMap is filled.
RECURSIVE FileTags(_)
FileTags(fs) ==
  IF fs = <<>> THEN <<>>
  ELSE (IF Head(fs).analysisData = NoData THEN <<>> ELSE Head(fs).analysisData.data.tags)
         \o FileTags(Tail(fs))

\* The indices of a set, in increasing order.
Ascending(S) ==
  CHOOSE q \in [1..Cardinality(S) -> S] : \A a, b \in 1..Cardinality(S) : a < b => q[a] < q[b]

\* Array.from(allTagsMap.values()): a Map keeps a key at the place of its first
\* set() and the value of its last.
allTagsMap(fs, data) ==
  LET all == (IF data = NoData THEN <<>> ELSE data.data.tags) \o FileTags(fs)
      first == { k \in 1..Len(all) : \A m \in 1..(k - 1) : all[m].id # all[k].id }
      order == Ascending(first)
      Last(id) == CHOOSE k \in 1..Len(all) :
                    all[k].id = id /\ \A m \in (k + 1)..Len(all) : all[m].id # id
  IN  [ n \in 1..Len(order) |-> all[Last(all[order[n]].id)] ]

\* sidebarTags: the first tag of each label
sidebarTags(fs, data) ==
  LET tags == allTagsMap(fs, data)
      first == { k \in 1..Len(tags) : \A m \in 1..(k - 1) : tags[m].label # tags[k].label }
      order == Ascending(first)
  IN  [ n \in 1..Len(order) |-> tags[order[n]] ]

\* The labels the user types for a new tag: one in use and one not.
NewTagLabels == {"Reason", "Cost"}

\* newTags.find(t => t.label === tagName), by index; 0 when absent
FindLabel(tags, label) ==
  LET hits == { k \in 1..Len(tags) : tags[k].label = label }
  IN  IF hits = {} THEN 0 ELSE CHOOSE k \in hits : \A m \in hits : k <= m

\* updateData of handleAddHighlight; tagId is 'NEW' with a tagName, or a tag id;
\* rndTag and rndHl are the two Math.random() ids.
updateData(data, text, tagId, tagName, rndTag, rndHl) ==
  LET existing == FindLabel(data.tags, tagName)
      isNew == tagId = "NEW" /\ tagName # ""
      actualTagId == IF ~isNew THEN tagId
                     ELSE IF existing > 0 THEN data.tags[existing].id
                     ELSE rndTag
      newTags == IF isNew /\ existing = 0
                   THEN Append(data.tags, [id |-> rndTag, label |-> tagName, color |-> "#ccc"])
                   ELSE data.tags
  IN  [ data EXCEPT !.tags = newTags,
                    !.highlights = Append(@, [id |-> rndHl, text |-> text, tagId |-> actualTagId]) ]

\* The ResearchData handleAddHighlight(fileId, ...) updates.
Updated(fileId) ==
  { files[k].analysisData.data :
      k \in { m \in 1..Len(files) : files[m].id = fileId /\ files[m].analysisData # NoData } }
    \cup (IF projectData = NoData THEN {} ELSE {projectData.data})

\* handleConfirmAddHighlight -> handleAddHighlight: the text selected in the
\* transcript of an analysed file is tagged with a tag picked from the sidebar
\* list or with a new label.
handleAddHighlight ==
  /\ \E k \in 1..Len(files), rndTag \in RandomIds, rndHl \in RandomIds :
       /\ files[k].analysisData # NoData
       /\ \A d \in Updated(files[k].id) : Len(d.highlights) < MaxHighlights
       /\ \E choice \in { <<sidebarTags(files, projectData)[n].id, "">> :
                              n \in 1..Len(sidebarTags(files, projectData)) }
                          \cup { <<"NEW", label>> : label \in NewTagLabels } :
            LET Update(d) == updateData(d, "Why?", choice[1], choice[2], rndTag, rndHl)
            IN  /\ files' = [ m \in 1..Len(files) |->
                                IF files[m].id = files[k].id /\ files[m].analysisData # NoData
                                  THEN [files[m] EXCEPT !.analysisData = Data(Update(@.data))]
                                  ELSE files[m] ]
                /\ projectData' = IF projectData = NoData THEN NoData
                                  ELSE Data(Update(projectData.data))
  /\ UNCHANGED <<histVars, promises, nextFileId, projectError, serviceVars>>

-----------------------------------------------------------------------------
\* AffinityScreen (src/types.ts:1138-1710): the clusters on the canvas, the
\* zoom, the drag gesture, the delete confirmation and the auto layout.
\* Canvas coordinates and the scale are JavaScript numbers; they are modelled
\* by exact fractions n/d in lowest terms.

\* What the canvas handlers leave alone.
appState == <<retryVars, pipeVars, appVars, mergeVars, histVars, filesVars>>

Abs(n) == IF n < 0 THEN -n ELSE n

RECURSIVE GCD(_, _)
GCD(a, b) == IF b = 0 THEN a ELSE GCD(b, a % b)

\* The number n/d (d > 0), in lowest terms.
Q(n, d) ==
  LET g == GCD(Abs(n), d)
  IN  [n |-> n \div g, d |-> d \div g]

Whole(n) == Q(n, 1)

QAdd(a, b) == Q(a.n * b.d + b.n * a.d, a.d * b.d)

QSub(a, b) == Q(a.n * b.d - b.n * a.d, a.d * b.d)

\* a / b for b > 0
QDiv(a, b) == Q(a.n * b.d, a.d * b.n)

QLess(a, b) == a.n * b.d < b.n * a.d

\* Math.min / Math.max
QMin(a, b) == IF QLess(b, a) THEN b ELSE a
QMax(a, b) == IF QLess(a, b) THEN b ELSE a

MinScale == Q(1, 10)
MaxScale == Whole(4)
ZoomStep == Q(1, 5)

\* e.deltaY of a wheel event: one notch either way, and the long scrolls
\* that carry the scale past either end; zoomSensitivity is 0.001
WheelDeltas == {-3000, -100, 100, 1000}

\* -e.deltaY * zoomSensitivity
WheelZoom(deltaY) == Q(-deltaY, 1000)

\* handleWheel: Math.min(Math.max(0.1, scale + delta), 4)
WheelScale(s, deltaY) == QMin(QMax(MinScale, QAdd(s, WheelZoom(deltaY))), MaxScale)

\* A zoom-in step without the upper end.
zoomInUnbounded(s) == QAdd(s, ZoomStep)

\* zoomIn: Math.min(s + 0.2, 4)
zoomIn(s) == QMin(QAdd(s, ZoomStep), MaxScale)

\* zoomOut: Math.max(s - 0.2, 0.1)
zoomOut(s) == QMax(QSub(s, ZoomStep), MinScale)

\* (clientX, clientY) of the mouse events
Pointers == { [x |-> 100, y |-> 100], [x |-> 160, y |-> 130] }

Origin == [x |-> 0, y |-> 0]

Cluster(id, x, y, width, height) ==
  [id |-> id, x |-> x, y |-> y, width |-> width, height |-> height, items |-> <<>>]

\* The cluster at index `index` (from 0) as analyzeResearchFile emits it.
EmittedCluster(index, width, height) ==
  Cluster("c" \o ToString(index + 1),
          Whole(50 + (index % 3) * 350), Whole(50 + (index \div 3) * 400), width, height)

NoDrag == [mode |-> "none"]

NoGesture == [id |-> "", pointer |-> Origin, clusters |-> <<>>]

NoItem == [clusterId |-> "", itemId |-> ""]

dialogVars == <<deleteConfirmation, answer>>
viewVars   == <<scale, offset, control, zooms>>
panVars    == <<isPanning, panStart>>
itemVars   == <<draggedItem, drops>>

\* clusters.find(cl => cl.id === id), by index; 0 when absent
FindCluster(cs, id) ==
  LET hits == { k \in 1..Len(cs) : cs[k].id = id }
  IN  IF hits = {} THEN 0 ELSE CHOOSE k \in hits : \A m \in hits : k <= m

\* c.width || 300, c.height || 340, for a fraction
OrWhole(q, fallback) == IF q.n # 0 THEN q ELSE Whole(fallback)

\* setDragState({id, mode, startX, startY, initialX, initialY, initialW,
\* initialH}): the mouse button goes down on a cluster's header (mode 'drag')
\* or on its resize handle (mode 'resize').  The delete dialog is modal: no
\* gesture starts while it is open.
GestureStart(mode) ==
  /\ dragState = NoDrag /\ ~isPanning /\ deleteConfirmation = ""
  /\ gestures < MaxGestures
  /\ gestures' = gestures + 1
  /\ \E k \in 1..Len(canvasClusters), e \in Pointers :
       /\ dragState' = [ id |-> canvasClusters[k].id, mode |-> mode,
                         startX |-> e.x, startY |-> e.y,
                         initialX |-> canvasClusters[k].x, initialY |-> canvasClusters[k].y,
                         initialW |-> OrWhole(canvasClusters[k].width, 300),
                         initialH |-> OrWhole(canvasClusters[k].height, 340) ]
       /\ gesture' = [id |-> canvasClusters[k].id, pointer |-> e, clusters |-> canvasClusters]
       /\ pointer' = e
  /\ moves' = 0
  /\ UNCHANGED <<canvasClusters, persisted, dialogVars, viewVars, panVars, itemVars, layouts,
                 appState>>

\* handleDragStart(e, id)
handleDragStart == GestureStart("drag")

\* handleResizeStart(e, id)
handleResizeStart == GestureStart("resize")

\* handlePanStart(e): the mouse button goes down on the canvas background
handlePanStart ==
  /\ dragState = NoDrag /\ ~isPanning /\ deleteConfirmation = ""
  /\ gestures < MaxGestures
  /\ gestures' = gestures + 1
  /\ isPanning' = TRUE
  /\ \E e \in Pointers :
       /\ panStart' = e
       /\ pointer' = e
       /\ gesture' = [id |-> "", pointer |-> e, clusters |-> canvasClusters]
  /\ moves' = 0
  /\ UNCHANGED <<canvasClusters, persisted, dialogVars, dragState, viewVars, itemVars, layouts,
                 appState>>

\* The position of a dragged cluster with the screen delta taken as it is.
DraggedToUnscaled(initial, client, start, s) == QAdd(initial, Whole(client - start))

\* dragState.initialX + (e.clientX - dragState.startX) / scale
DraggedTo(initial, client, start, s) == QAdd(initial, QDiv(Whole(client - start), s))

\* The callback of clusters.map in handleMouseMove
MovedCluster(c, e) ==
  IF c.id # dragState.id THEN c
  ELSE IF dragState.mode = "drag"
    THEN [c EXCEPT !.x = DraggedTo(dragState.initialX, e.x, dragState.startX, scale),
                   !.y = DraggedTo(dragState.initialY, e.y, dragState.startY, scale)]
    ELSE [c EXCEPT
            !.width = QMax(Whole(250),
                           DraggedTo(dragState.initialW, e.x, dragState.startX, scale)),
            !.height = QMax(Whole(200),
                            DraggedTo(dragState.initialH, e.y, dragState.startY, scale))]

\* handleMouseMove(e), installed while a gesture is on: a pan moves the
\* offset, a drag or a resize changes the local clusters.
handleMouseMove ==
  /\ isPanning \/ dragState # NoDrag
  /\ moves < MaxMoves
  /\ moves' = moves + 1
  /\ \E e \in Pointers \ {pointer} :
       /\ pointer' = e
       /\ IF isPanning
            THEN /\ offset' = [x |-> offset.x + (e.x - panStart.x),
                               y |-> offset.y + (e.y - panStart.y)]
                 /\ panStart' = e
                 /\ UNCHANGED canvasClusters
            ELSE /\ canvasClusters' = [ k \in 1..Len(canvasClusters) |->
                                          MovedCluster(canvasClusters[k], e) ]
                 /\ UNCHANGED <<offset, panStart>>
  /\ UNCHANGED <<persisted, dialogVars, dragState, scale, control, zooms, isPanning, gesture,
                 gestures, itemVars, layouts, appState>>

\* A mouse-up that ends the gesture and saves nothing.
handleMouseUpWithoutSave ==
  /\ isPanning \/ dragState # NoDrag
  /\ isPanning' = FALSE
  /\ dragState' = NoDrag
  /\ UNCHANGED <<canvasClusters, persisted, dialogVars, viewVars, panStart, pointer, gesture,
                 moves, gestures, itemVars, layouts, appState>>

\* handleMouseUp: the pan ends; after a drag or a resize the clusters are
\* handed to onUpdateClusters
handleMouseUp ==
  /\ isPanning \/ dragState # NoDrag
  /\ isPanning' = FALSE
  /\ IF dragState # NoDrag
       THEN /\ persisted' = IF FindCluster(canvasClusters, dragState.id) # 0
                              THEN canvasClusters ELSE persisted
            /\ dragState' = NoDrag
       ELSE UNCHANGED <<persisted, dragState>>
  /\ UNCHANGED <<canvasClusters, dialogVars, viewVars, panStart, pointer, gesture, moves,
                 gestures, itemVars, layouts, appState>>

\* handleWheel, zoomIn, zoomOut and resetView
Zoom ==
  /\ zooms < MaxZooms
  /\ zooms' = zooms + 1
  /\ \/ /\ \E deltaY \in WheelDeltas : scale' = WheelScale(scale, deltaY)
        /\ control' = "handleWheel"
        /\ UNCHANGED offset
     \/ /\ scale' = zoomIn(scale)
        /\ control' = "zoomIn"
        /\ UNCHANGED offset
     \/ /\ scale' = zoomOut(scale)
        /\ control' = "zoomOut"
        /\ UNCHANGED offset
     \/ /\ scale' = Whole(1)
        /\ offset' = Origin
        /\ control' = "resetView"
  /\ UNCHANGED <<canvasClusters, persisted, dialogVars, dragState, panVars, pointer, gesture,
                 moves, gestures, itemVars, layouts, appState>>

\* A delete request that removes the cluster at once.
DeleteAtOnce ==
  /\ dragState = NoDrag /\ ~isPanning /\ deleteConfirmation = ""
  /\ \E k \in 1..Len(canvasClusters) :
       /\ canvasClusters' = RemoveById(canvasClusters, canvasClusters[k].id)
       /\ persisted' = canvasClusters'
  /\ UNCHANGED <<dialogVars, dragState, viewVars, panVars, pointer, gesture, moves,
                 gestures, itemVars, layouts, appState>>

\* handleDeleteCluster(clusterId): the delete button of a cluster
handleDeleteCluster ==
  /\ dragState = NoDrag /\ ~isPanning /\ deleteConfirmation = ""
  /\ \E k \in 1..Len(canvasClusters) : deleteConfirmation' = canvasClusters[k].id
  /\ UNCHANGED <<canvasClusters, persisted, answer, dragState, viewVars, panVars, pointer,
                 gesture, moves, gestures, itemVars, layouts, appState>>

\* confirmDeleteCluster: onConfirm of the dialog
confirmDeleteCluster ==
  /\ deleteConfirmation # ""
  /\ canvasClusters' = RemoveById(canvasClusters, deleteConfirmation)
  /\ persisted' = canvasClusters'
  /\ deleteConfirmation' = ""
  /\ answer' = "confirm"
  /\ UNCHANGED <<dragState, viewVars, panVars, pointer, gesture, moves, gestures, itemVars,
                 layouts, appState>>

\* onCancel of the dialog: setDeleteConfirmation(null)
cancelDeleteCluster ==
  /\ deleteConfirmation # ""
  /\ deleteConfirmation' = ""
  /\ answer' = "cancel"
  /\ UNCHANGED <<canvasClusters, persisted, dragState, viewVars, panVars, pointer, gesture,
                 moves, gestures, itemVars, layouts, appState>>

\* sourceCluster.items.findIndex(i => i.id === id), from 1; 0 when absent
FindItem(items, id) ==
  LET hits == { k \in 1..Len(items) : items[k].id = id }
  IN  IF hits = {} THEN 0 ELSE CHOOSE k \in hits : \A m \in hits : k <= m

\* items.splice(k, 1), k from 1
SpliceOut(items, k) == SubSeq(items, 1, k - 1) \o SubSeq(items, k + 1, Len(items))

\* items.splice(k, 0, item), k from 1
SpliceIn(items, k, item) == SubSeq(items, 1, k - 1) \o <<item>> \o SubSeq(items, k, Len(items))

\* handleItemDragStart(e, clusterId, itemId): a drag of an item begins
handleItemDragStart ==
  /\ dragState = NoDrag /\ ~isPanning /\ deleteConfirmation = ""
  /\ \E k \in 1..Len(canvasClusters) :
       \E j \in 1..Len(canvasClusters[k].items) :
         draggedItem' = [clusterId |-> canvasClusters[k].id,
                         itemId |-> canvasClusters[k].items[j].id]
  /\ UNCHANGED <<canvasClusters, persisted, dialogVars, dragState, viewVars, panVars, pointer,
                 gesture, moves, gestures, drops, layouts, appState>>

\* The clusters handleItemDrop builds once the source cluster, the target
\* cluster and the item are found and the item is not dropped on itself.
Dropped(cs, dragged, targetClusterId, targetItemId) ==
  LET s == FindCluster(cs, dragged.clusterId)
      t == FindCluster(cs, targetClusterId)
      itemIdx == FindItem(cs[s].items, dragged.itemId)
      item == cs[s].items[itemIdx]
      source == SpliceOut(cs[s].items, itemIdx)
      target == IF s = t THEN source ELSE cs[t].items
      targetIdx == FindItem(target, targetItemId)
      placed == IF targetItemId # "" /\ targetIdx # 0
                  THEN SpliceIn(target, targetIdx, item)
                  ELSE Append(target, item)
      withSource == [cs EXCEPT ![s].items = source]
  IN  [withSource EXCEPT ![t].items = placed]

\* handleItemDrop(e, targetClusterId, targetItemId?): the dragged item is
\* dropped on a cluster (targetItemId "": undefined) or on one of its items.
handleItemDrop ==
  /\ draggedItem # NoItem
  /\ Len(drops) < MaxDrops
  /\ \E t \in 1..Len(canvasClusters) :
       \E targetItemId \in {""} \cup { canvasClusters[t].items[j].id :
                                         j \in 1..Len(canvasClusters[t].items) } :
         LET targetClusterId == canvasClusters[t].id
             s == FindCluster(canvasClusters, draggedItem.clusterId)
         IN  /\ drops' = Append(drops, [ clusterId |-> draggedItem.clusterId,
                                         itemId |-> draggedItem.itemId,
                                         targetClusterId |-> targetClusterId,
                                         targetItemId |-> targetItemId ])
             /\ IF s = 0 \/ FindCluster(canvasClusters, targetClusterId) = 0
                  THEN UNCHANGED <<canvasClusters, persisted, draggedItem>>
                  ELSE IF FindItem(canvasClusters[s].items, draggedItem.itemId) = 0
                    THEN UNCHANGED <<canvasClusters, persisted, draggedItem>>
                    ELSE IF targetItemId # "" /\ targetItemId = draggedItem.itemId
                      THEN /\ draggedItem' = NoItem
                           /\ UNCHANGED <<canvasClusters, persisted>>
                      ELSE /\ canvasClusters' = Dropped(canvasClusters, draggedItem,
                                                        targetClusterId, targetItemId)
                           /\ persisted' = canvasClusters'
                           /\ draggedItem' = NoItem
  /\ UNCHANGED <<dialogVars, dragState, viewVars, panVars, pointer, gesture, moves, gestures,
                 layouts, appState>>

\* cluster.width || 300, cluster.height || 340
OrNumber(n, fallback) == IF n # 0 THEN n ELSE fallback

\* The wrap test without the cluster's width.
WrapNeededIgnoringWidth(currentX, width) ==
  currentX > MAX_ROW_WIDTH /\ currentX > START_X

\* currentX + width > MAX_ROW_WIDTH && currentX > START_X
WrapNeeded(currentX, width) ==
  currentX + width > MAX_ROW_WIDTH /\ currentX > START_X

\* The row height taken from the last cluster placed.
RowHeightOfLast(currentRowHeight, height) == height

\* Math.max(currentRowHeight, height)
RowHeight(currentRowHeight, height) ==
  IF currentRowHeight < height THEN height ELSE currentRowHeight

\* The callback of clusters.map in handleAutoLayout, from cluster k on, with
\* the three cursors as they stand: the positions assigned.
RECURSIVE LayoutFrom(_, _, _, _, _)
LayoutFrom(cs, k, currentX, currentY, currentRowHeight) ==
  IF k > Len(cs) THEN <<>>
  ELSE LET width == OrNumber(cs[k].width, 300)
           height == OrNumber(cs[k].height, 340)
           wrap == WrapNeeded(currentX, width)
           x == IF wrap THEN START_X ELSE currentX
           y == IF wrap THEN currentY + currentRowHeight + PADDING ELSE currentY
           rowHeight == IF wrap THEN 0 ELSE currentRowHeight
       IN  << [x |-> x, y |-> y] >>
             \o LayoutFrom(cs, k + 1, x + width + PADDING, y, RowHeight(rowHeight, height))

\* A layout whose cursor starts beside the first cluster's present place.
LayoutFromFirstCluster(cs) ==
  IF cs = <<>> THEN <<>>
  ELSE LayoutFrom(cs, 1, START_X + (cs[1].x.n \div cs[1].x.d) + PADDING, START_Y, 0)

\* The positions handleAutoLayout assigns to the clusters.
Layout(cs) == LayoutFrom(cs, 1, START_X, START_Y, 0)

\* handleAutoLayout
handleAutoLayout ==
  /\ Len(layouts) < MaxLayoutRuns
  /\ LET newPos == Layout(canvasClusters)
     IN  /\ canvasClusters' = [ k \in 1..Len(canvasClusters) |->
                            [canvasClusters[k] EXCEPT !.x = Whole(newPos[k].x), !.y = Whole(newPos[k].y)] ]
         /\ layouts' = Append(layouts, newPos)
  /\ persisted' = canvasClusters'
  /\ UNCHANGED <<dialogVars, dragState, viewVars, panVars, pointer, gesture, moves, gestures,
                 itemVars, appState>>

-----------------------------------------------------------------------------
\* Specifications.

JsonIdle ==
  /\ mainJson = EmptyMain
  /\ affinityJson = AffinityObj(Arr(<<>>))
  /\ insightsJson = InsightsObj(Arr(<<>>), Arr(<<>>), Arr(<<>>))

NoStageEnd == [kind |-> "pending", error |-> NoError, all429 |-> FALSE]

RetryIdle ==
  /\ rpc = "idle"
  /\ retries = 0
  /\ delay = 0
  /\ i = 0
  /\ lastError = NoError
  /\ rresult = Pending
  /\ sleeps = <<>>
  /\ opLog = <<>>
  /\ attempts = [s \in Stages |-> 0]

PipeIdle(at) ==
  /\ pc = at
  /\ attempt = 0
  /\ fileState = "NONE"
  /\ JsonIdle
  /\ stageEnd = [s \in Stages |-> NoStageEnd]
  /\ reported = {}
  /\ result = Pending
  /\ pfile = [status |-> "uploading", progress |-> 0, analysisData |-> NoData, error |-> ""]
  /\ projectError = ""

MergeIdle ==
  /\ mpc = [f \in Files |-> "raw"]
  /\ raw = [f \in Files |-> NoOutput]
  /\ filePrefix = [f \in Files |-> ""]
  /\ merged = [f \in Files |-> [tags |-> <<>>, highlights |-> <<>>, clusters |-> <<>>]]

\* The App before any project exists.
AppIdle ==
  /\ projectId = 0
  /\ projectName = DefaultName
  /\ currentScreen = "START"
  /\ projectData = NoData
  /\ files = <<>>
  /\ promises = <<>>
  /\ history = <<>>
  /\ confirmation = 0
  /\ deleted = <<>>
  /\ nextId = 0
  /\ nextFileId = 0
  /\ edits = 0

\* The canvas of a project without clusters.
\* The affinity screen as it mounts, but for the clusters.
CanvasFresh ==
  /\ deleteConfirmation = ""
  /\ answer = ""
  /\ dragState = NoDrag
  /\ scale = Whole(1)
  /\ offset = Origin
  /\ control = ""
  /\ isPanning = FALSE
  /\ panStart = Origin
  /\ draggedItem = NoItem
  /\ drops = <<>>
  /\ pointer = Origin
  /\ gesture = NoGesture
  /\ moves = 0
  /\ gestures = 0
  /\ zooms = 0
  /\ layouts = <<>>

CanvasIdle ==
  /\ canvasClusters = <<>>
  /\ persisted = <<>>
  /\ CanvasFresh

UiIdle == AppIdle /\ CanvasIdle

\* handleAddFiles has added one file (status 'uploading', progress 0) and
\* calls analyzeResearchFile for it.
Init ==
  /\ RetryIdle
  /\ stage = "op"
  /\ fileSize \in FileSizes
  /\ PipeIdle("start")
  /\ MergeIdle
  /\ UiIdle

Next ==
  \/ Start
  \/ ReadFile
  \/ RetryCall
  \/ RetrySleep
  \/ AfterUpload
  \/ Poll
  \/ PollSleep
  \/ AfterMain
  \/ AfterAffinity
  \/ AfterInsights
  \/ FileAnalysed
  \/ FileFailed

Spec == Init /\ [][Next]_vars

\* Every await of analyzeResearchFile settles (each external call returns or
\* fails) and the handlers chained on its promise run: a step that can be
\* taken is taken.
SpecLive == Spec /\ WF_vars(Next)

\* retryOperation alone, called with any retries >= 1 and one of the delays
\* the program passes, on an operation that may do anything on each invocation.
InitRetry ==
  /\ rpc = "call"
  /\ retries \in 1..MaxRetries
  /\ delay \in {StageDelay, UploadDelay}
  /\ i = 0
  /\ lastError = NoError
  /\ rresult = Pending
  /\ sleeps = <<>>
  /\ opLog = <<>>
  /\ attempts = [s \in Stages |-> 0]
  /\ stage = "op"
  /\ fileSize = 1
  /\ PipeIdle("idle")
  /\ MergeIdle
  /\ UiIdle

NextRetry == RetryCall \/ RetrySleep

SpecRetry == InitRetry /\ [][NextRetry]_vars

\* The remap of part_000 alone, for the two files.
InitMerge ==
  /\ RetryIdle
  /\ stage = "op"
  /\ fileSize = 1
  /\ PipeIdle("idle")
  /\ MergeIdle
  /\ UiIdle

NextMerge == \E f \in Files : RemapMerge(f)

SpecMerge == InitMerge /\ [][NextMerge]_vars

ServiceIdle ==
  /\ RetryIdle
  /\ stage = "op"
  /\ fileSize = 1
  /\ PipeIdle("idle")
  /\ MergeIdle

\* The App from its first render with nothing stored: the project handlers
\* and the analyses of the files added.
InitHistory ==
  /\ ServiceIdle
  /\ UiIdle

NextHistory ==
  \/ handleStartAnalysis
  \/ handleNewProject
  \/ handleUpdateProjectName
  \/ handleAddFiles
  \/ FileCompletes
  \/ handleLoadProject
  \/ handleDeleteProject
  \/ executeDeletion
  \/ cancelDeletion

SpecHistory == InitHistory /\ [][NextHistory]_vars

\* The App from its first render with nothing stored, through its screens:
\* each handler runs only where its control is rendered, the analyses of the
\* files settle at any time, and the page may be reloaded at any time.
InitScreens == InitHistory

NextScreens ==
  \/ StartScreen
  \/ UploadScreen
  \/ TopNav
  \/ LayoutMenu
  \/ FileProgress
  \/ FileCompletes
  \/ FileRejects
  \/ Reload

SpecScreens == InitScreens /\ [][NextScreens]_vars

-----------------------------------------------------------------------------
\* Properties of retryOperation, checked under SpecRetry.

Thrown(k) == opLog[k].kind = "throw"

\* Every invocation so far failed with a retryable error of status 500.
AlwaysFails500 ==
  \A k \in 1..Len(opLog) : Thrown(k) /\ StatusOf(opLog[k].error) = 500

\* C1: when operation() fails on every call with status 500, it is never
\* invoked more than retries times, and once retryOperation has settled it was
\* invoked exactly retries times and retryOperation rejected with the error
\* of the last invocation.
C1_ExhaustsRetries ==
  AlwaysFails500 =>
    /\ Len(opLog) <= retries
    /\ rpc # "resolved"
    /\ rpc = "rejected" =>
         /\ Len(opLog) = retries
         /\ rresult = Throw(opLog[Len(opLog)].error)

\* C1 witness: three failing invocations, the first and the last error differ,
\* and retryOperation has rejected.
C1_Witness ==
  /\ rpc = "rejected" /\ AlwaysFails500
  /\ retries = 3 /\ Len(opLog) = 3
  /\ opLog[1].error # opLog[3].error

\* C2: an invocation that fails with a status in [400,500) other than 429 is
\* the last one: retryOperation has rejected with that same error and has not
\* waited after it; when it is the first invocation, operation() was invoked
\* exactly once and there was no wait at all, whatever retries is.
C2_ClientErrorNotRetried ==
  \A k \in 1..Len(opLog) :
    ( /\ Thrown(k)
      /\ StatusOf(opLog[k].error) >= 400
      /\ StatusOf(opLog[k].error) < 500
      /\ StatusOf(opLog[k].error) # 429 ) =>
        /\ Len(opLog) = k
        /\ rpc = "rejected"
        /\ rresult = Throw(opLog[k].error)
        /\ Len(sleeps) = k - 1
        /\ attempts["op"] = k

\* C2 witness: the first invocation failed with status 400 while two more
\* attempts were left.
C2_Witness ==
  /\ retries = 3 /\ Len(opLog) = 1
  /\ Thrown(1) /\ opLog[1].error.status = 400
  /\ rpc = "rejected" /\ sleeps = <<>>

-----------------------------------------------------------------------------
\* Properties of analyzeResearchFile, checked under Spec.

Finished == pc \in {"done", "applied"}

QuotaFailed(st) == stageEnd[st].kind = "throw" /\ stageEnd[st].all429

\* C3: when the main stage succeeded and the affinity and the insights call
\* both failed with status 429 on every attempt, analyzeResearchFile resolves
\* with the main stage's transcript, tags and highlights and with empty
\* clusters, insights table, word cloud and pattern chart.
C3_DegradedMode ==
  (QuotaFailed("affinity") /\ QuotaFailed("insights")) =>
    /\ result.kind = "ok"
    /\ mainJson.transcript.kind = "string" =>
         result.value.transcript = mainJson.transcript.val
    /\ mainJson.tags.kind = "array" => result.value.tags = mainJson.tags.items
    /\ mainJson.highlights.kind = "array" =>
         result.value.highlights = mainJson.highlights.items
    /\ result.value.clusters = <<>>
    /\ result.value.insightsTable = <<>>
    /\ result.value.wordCloud = <<>>
    /\ result.value.problemPatternsChart = <<>>

\* C3 witness: both best-effort stages used their two attempts on 429 and the
\* ResearchData returned has the transcript, a tag and a highlight.
C3_Witness ==
  /\ QuotaFailed("affinity") /\ QuotaFailed("insights")
  /\ attempts["affinity"] = 2 /\ attempts["insights"] = 2
  /\ result.kind = "ok"
  /\ result.value.transcript # ""
  /\ result.value.tags = <<T1>>
  /\ result.value.highlights = <<H1>>

\* C4: the affinity and the insights call are issued only once the main call
\* has completed successfully; when the main stage failed neither is ever
\* issued and analyzeResearchFile has rejected.
C4_StageOrdering ==
  /\ (attempts["affinity"] > 0 \/ attempts["insights"] > 0) =>
       stageEnd["main"].kind = "ok"
  /\ attempts["insights"] > 0 => stageEnd["affinity"].kind # "pending"
  /\ stageEnd["main"].kind = "throw" =>
       /\ attempts["affinity"] = 0
       /\ attempts["insights"] = 0
       /\ result.kind = "throw"

\* C4 witness: the main call failed on both attempts and the pipeline has
\* rejected without any affinity or insights call.
C4_Witness ==
  /\ stageEnd["main"].kind = "throw"
  /\ attempts["main"] = 2
  /\ Finished /\ result.kind = "throw"
  /\ attempts["affinity"] = 0 /\ attempts["insights"] = 0

\* C5 as claimed: onProgress is invoked with 'uploaded' only after the whole
\* pipeline has completed successfully.
C5_UploadedOnlyAfterPipeline ==
  "uploaded" \in reported => (Finished /\ result.kind = "ok")

\* C8: whenever the ResearchData is built, the build does not raise, and every
\* cluster item whose highlight id is absent from the highlight set carries
\* the placeholder 'Missing quote...'.
C8_DanglingReference ==
  ( /\ stageEnd["insights"].kind # "pending"
    /\ affinityJson.kind # "null"
    /\ insightsJson.kind # "null" ) =>
      /\ result.kind = "ok"
      /\ \A c \in 1..Len(result.value.clusters) :
           \A k \in 1..Len(result.value.clusters[c].items) :
             LET item == result.value.clusters[c].items[k]
                 ids == { result.value.highlights[h].id :
                            h \in 1..Len(result.value.highlights) }
             IN  item.highlightIds[1] \notin ids => item.text = "Missing quote..."

\* C8 witness: a cluster with one item that resolves to its quote and one
\* that references the absent highlight h9.
C8_Witness ==
  /\ result.kind = "ok"
  /\ Len(result.value.clusters) = 1
  /\ Len(result.value.clusters[1].items) = 2
  /\ result.value.clusters[1].items[1].text = "Because."
  /\ result.value.clusters[1].items[2].highlightIds = <<"h9">>
  /\ result.value.clusters[1].items[2].text = "Missing quote..."

QuotaRejection == Throw(NewError(QuotaMessage))

MissingRequiredField ==
  \/ mainJson.transcript.kind = "undefined"
  \/ mainJson.tags.kind = "undefined"
  \/ mainJson.highlights.kind = "undefined"

\* C10 as claimed: when the main response is no valid JSON or lacks one of
\* transcript, tags and highlights, analyzeResearchFile rejects.
C10_MalformedMainRejects ==
  ( /\ Finished
    /\ stageEnd["main"].kind = "ok"
    /\ mainJson.kind = "object"
    /\ MissingRequiredField ) => result.kind = "throw"

NoGenerationCall ==
  attempts["main"] = 0 /\ attempts["affinity"] = 0 /\ attempts["insights"] = 0

FailedStateError == NewError("File processing failed on Gemini side.")

TimeoutError == NewError("File processing timed out.")

\* C11: on the large-file path a generation call is made only once the remote
\* file was read ACTIVE; when it is read FAILED analyzeResearchFile rejects
\* with the failed-state error, when it is still PROCESSING after MaxPolls
\* polls it rejects with the timeout error, a different error, and in both
\* cases no generation call is ever made.
C11_FailedOrTimedOutFileRejects ==
  /\ (fileSize > InlineLimit /\ ~NoGenerationCall) => fileState = "ACTIVE"
  /\ fileState = "FAILED" => (result = Throw(FailedStateError) /\ NoGenerationCall)
  /\ (fileState = "PROCESSING" /\ attempt > MaxPolls) =>
       (result = Throw(TimeoutError) /\ NoGenerationCall)
  /\ (fileState = "PROCESSING" /\ pc \notin {"poll", "pollSleep"}) =>
       (result.kind = "throw" /\ NoGenerationCall)
  /\ FailedStateError # TimeoutError

\* C11 witness: the file was still PROCESSING at the 60th poll and the
\* handler has recorded the timeout on the file.
C11_Witness ==
  /\ fileState = "PROCESSING" /\ attempt = MaxPolls + 1
  /\ pc = "applied" /\ pfile.status = "error"
  /\ pfile.error = "File processing timed out."

\* A project exists (handleStartAnalysis has run) and the upload screen is
\* shown: files are added and removed, their analyses report progress, resolve
\* and reject, and a project of the history may be loaded.
InitFiles ==
  /\ ServiceIdle
  /\ projectId = 1
  /\ projectName = DefaultName
  /\ currentScreen = "UPLOAD"
  /\ projectData = NoData
  /\ files = <<>>
  /\ promises = <<>>
  /\ history = <<SavedProject(1, DefaultName, 0, InitialData)>>
  /\ confirmation = 0
  /\ deleted = <<>>
  /\ nextId = 1
  /\ nextFileId = 0
  /\ edits = 0
  /\ CanvasIdle

NextFiles ==
  \/ handleAddFiles
  \/ handleRemoveFile
  \/ FileProgress
  \/ FileCompletes
  \/ FileRejects
  \/ handleLoadProject

SpecFiles == InitFiles /\ [][NextFiles]_vars

\* The transcript screen of a project: files are added, their analyses
\* resolve and highlights are added by the user.
InitTags == InitFiles

NextTags ==
  \/ handleAddFiles
  \/ FileCompletes
  \/ handleAddHighlight

SpecTags == InitTags /\ [][NextTags]_vars

\* The widths and heights of the clusters laid out: as emitted (300 x 340),
\* resized, and wider than a row.
Widths == {300, 700, 1700}
Heights == {200, 340}

\* The affinity screen of a project whose data holds two clusters as
\* analyzeResearchFile emits them: gestures, zoom and deletion.
InitCanvas ==
  /\ ServiceIdle
  /\ AppIdle
  /\ canvasClusters = << EmittedCluster(0, Whole(300), Whole(340)),
                       EmittedCluster(1, Whole(300), Whole(340)) >>
  /\ persisted = canvasClusters
  /\ CanvasFresh

NextCanvas ==
  \/ handleDragStart
  \/ handleResizeStart
  \/ handlePanStart
  \/ handleMouseMove
  \/ handleMouseUp
  \/ Zoom
  \/ handleDeleteCluster
  \/ confirmDeleteCluster
  \/ cancelDeleteCluster

SpecCanvas == InitCanvas /\ [][NextCanvas]_vars

\* handleAutoLayout on any list of up to MaxClusters clusters.
InitLayout ==
  /\ ServiceIdle
  /\ AppIdle
  /\ \E n \in 0..MaxClusters :
       \E size \in [1..n -> Widths \X Heights] :
         canvasClusters = [ k \in 1..n |-> EmittedCluster(k - 1, size[k][1], size[k][2]) ]
  /\ persisted = canvasClusters
  /\ CanvasFresh

NextLayout == handleAutoLayout

SpecLayout == InitLayout /\ [][NextLayout]_vars

\* The highlight ids the AI lists in the clusters of its affinity response.
ItemIds == {"h1", "h2"}

\* Affinity responses of two clusters; each lists up to MaxItems highlight ids.
ItemAffinities ==
  { AffinityObj(Arr(<< ApiCluster("c1", "Motives", "#FCA5A5", Arr(a)),
                       ApiCluster("c2", "Doubts", "#E2E8F0", Arr(b)) >>)) :
      a \in SeqsUpTo(ItemIds, MaxItems), b \in SeqsUpTo(ItemIds, MaxItems) }

\* The effect on data.clusters: the local clusters of the affinity screen.
initialized(dataClusters) ==
  [ k \in 1..Len(dataClusters) |->
      [ Cluster(dataClusters[k].id, Whole(dataClusters[k].x), Whole(dataClusters[k].y),
                Whole(dataClusters[k].width), Whole(dataClusters[k].height))
          EXCEPT !.items = dataClusters[k].items ] ]

\* The affinity screen of a project whose clusters are those
\* analyzeResearchFile built from an affinity response: items are dragged
\* and dropped.
InitItems ==
  /\ ServiceIdle
  /\ AppIdle
  /\ \E affinity \in ItemAffinities :
       canvasClusters = initialized(uiClusters(affinity, <<>>, "k3x9q0p2m"))
  /\ persisted = canvasClusters
  /\ CanvasFresh

NextItems ==
  \/ handleItemDragStart
  \/ handleItemDrop

SpecItems == InitItems /\ [][NextItems]_vars

-----------------------------------------------------------------------------
\* Properties of the project history, checked under SpecHistory.

\* C12 as claimed: the history list never holds more than 10 entries.
C12_HistoryCapped == Len(history) <= HistoryCap

-----------------------------------------------------------------------------
\* Properties of the file handlers, checked under SpecFiles.

FileIds == 1..Len(promises)

\* The record of file f in a file list (f is listed).
FileOf(fs, f) == fs[FindIndex(fs, f)]

\* C14: when the analysis of a file that is no longer listed settles, the
\* files, the active data, the project error and the history stay as they
\* are; and no step (so no progress event of an unlisted file either) changes
\* the record of a listed file unless that file's own analysis is in flight.
C14_RemovedFileGuard ==
  [][ /\ \A f \in FileIds :
           (promises[f] = Pending /\ ~Present(files, f) /\ promises'[f] # Pending) =>
             UNCHANGED <<files, projectData, projectError, history>>
      /\ \A g \in FileIds :
           (Present(files, g) /\ Present(files', g) /\ FileOf(files', g) # FileOf(files, g)) =>
             promises[g] = Pending
    ]_vars

\* C14 witness: of two files added, one was removed while its analysis was
\* in flight; the analysis has since resolved and nothing was applied.
C14_Witness ==
  /\ Len(promises) = 2 /\ Len(files) = 1
  /\ \E f \in FileIds : promises[f].kind = "ok" /\ ~Present(files, f)
  /\ projectData = NoData
  /\ history = <<SavedProject(1, DefaultName, 0, InitialData)>>

\* C16: when analyzeResearchFile rejects for a listed file, that file's
\* status becomes 'error' and its error the message, the project error is set
\* (to the message, or to the common error text when the message is empty),
\* and every other file's record is unchanged.
C16_FailureSurfaced ==
  [][ \A f \in FileIds :
        (promises[f] = Pending /\ promises'[f].kind = "throw" /\ Present(files, f)) =>
          /\ Len(files') = Len(files)
          /\ \A k \in 1..Len(files) :
               IF files[k].id = f
                 THEN /\ files'[k].id = f
                      /\ files'[k].status = "error"
                      /\ files'[k].error = promises'[f].error.msg
                 ELSE files'[k] = files[k]
          /\ projectError' # ""
          /\ promises'[f].error.msg # "" => projectError' = promises'[f].error.msg
    ]_vars

\* C16 witness: one file is analysed, the other failed on quota and shows it.
C16_Witness ==
  /\ Len(files) = 2
  /\ files[1].status = "uploaded" /\ files[1].analysisData # NoData
  /\ files[2].status = "error" /\ files[2].error = QuotaMessage
  /\ projectError = QuotaMessage

-----------------------------------------------------------------------------
\* Properties of the highlights, checked under SpecTags.

\* Every highlight of a ResearchData names a tag of that ResearchData.
TagsResolve(d) ==
  \A k \in 1..Len(d.highlights) :
    \E n \in 1..Len(d.tags) : d.tags[n].id = d.highlights[k].tagId

\* C15 as claimed: in every state every highlight of each file's analysisData
\* and of the active data has the id of a tag of the same ResearchData.
C15_HighlightTagsResolve ==
  /\ \A k \in 1..Len(files) :
       files[k].analysisData # NoData => TagsResolve(files[k].analysisData.data)
  /\ projectData # NoData => TagsResolve(projectData.data)

-----------------------------------------------------------------------------
\* Properties of the remap and merge, checked under SpecMerge.

BothMerged == \A f \in Files : mpc[f] = "merged"

Ids(items) == [ k \in 1..Len(items) |-> items[k].id ]

Distinct(s) == \A a, b \in 1..Len(s) : a # b => s[a] # s[b]

RECURSIVE Flatten(_)
Flatten(ss) == IF ss = <<>> THEN <<>> ELSE Head(ss) \o Flatten(Tail(ss))

\* The ids of one file's clusters and of their items.
ClusterIds(cs) == Ids(cs) \o Flatten([ k \in 1..Len(cs) |-> Ids(cs[k].items) ])

\* The AI output of one file reuses no id within its tags, within its
\* highlights and within its themes and subclusters.
WellFormedIds(r) ==
  /\ Distinct(Ids(r.tags))
  /\ Distinct(Ids(r.highlights))
  /\ Distinct(Ids(r.themes)
               \o Flatten([ k \in 1..Len(r.themes) |->
                              Ids(ensureArray(r.themes[k].subclusters)) ]))

\* C6 as claimed: after the remap of both files, whose ids may coincide
\* across the files, the emitted tag ids, the emitted highlight ids and the
\* emitted cluster and subcluster ids are pairwise distinct.
C6_RemapInjective ==
  (BothMerged /\ \A f \in Files : WellFormedIds(raw[f])) =>
    /\ Distinct(Ids(merged[1].tags) \o Ids(merged[2].tags))
    /\ Distinct(Ids(merged[1].highlights) \o Ids(merged[2].highlights))
    /\ Distinct(ClusterIds(merged[1].clusters) \o ClusterIds(merged[2].clusters))

\* C7 as claimed: every emitted highlight's tagId is the id of an emitted tag
\* of the same file's ResearchData.
C7_TagIdResolves ==
  \A f \in Files :
    mpc[f] = "merged" =>
      \A k \in 1..Len(merged[f].highlights) :
        \E t \in 1..Len(merged[f].tags) :
          merged[f].tags[t].id = merged[f].highlights[k].tagId

-----------------------------------------------------------------------------
\* Properties of the canvas, checked under SpecCanvas.

IdsOn(cs) == { cs[k].id : k \in 1..Len(cs) }

\* C13: a request to delete a cluster (the dialog opens) changes neither the
\* local nor the persisted cluster list; a cluster leaves either list only in
\* the step in which the open dialog for that cluster is confirmed, and then
\* it leaves both; the step in which the dialog is cancelled changes neither list.
C13_DeleteNeedsConfirm ==
  [][ /\ (deleteConfirmation = "" /\ deleteConfirmation' # "")
           => UNCHANGED <<canvasClusters, persisted>>
      /\ \A id \in (IdsOn(canvasClusters) \ IdsOn(canvasClusters'))
                      \cup (IdsOn(persisted) \ IdsOn(persisted')) :
           /\ deleteConfirmation = id
           /\ deleteConfirmation' = ""
           /\ answer' = "confirm"
           /\ id \notin IdsOn(canvasClusters') \cup IdsOn(persisted')
      /\ (deleteConfirmation # "" /\ deleteConfirmation' = "" /\ answer' = "confirm")
           => /\ deleteConfirmation \notin IdsOn(canvasClusters')
              /\ persisted' = canvasClusters'
      /\ (deleteConfirmation # "" /\ deleteConfirmation' = "" /\ answer' = "cancel")
           => UNCHANGED <<canvasClusters, persisted>>
    ]_vars

\* A request is pending for a cluster still in both lists, after an earlier
\* request was confirmed and took the other cluster out of both.
C13_Witness ==
  /\ deleteConfirmation # ""
  /\ answer = "confirm"
  /\ deleteConfirmation \in IdsOn(canvasClusters) \cap IdsOn(persisted)
  /\ Len(canvasClusters) = 1
  /\ Len(persisted) = 1

\* The cluster the gesture grabbed, in the list cs.
Grabbed(cs) == cs[FindCluster(cs, gesture.id)]

\* now - start = delta / s, for fractions now and start, an integer delta
\* and a fraction s > 0
MovedBy(now, start, delta, s) ==
  LET m == QSub(now, start)
  IN  m.n * s.n = delta * s.d * m.d

\* C20: in every mousemove step of a drag gesture, the cluster grabbed is
\* afterwards at its position at the start of the gesture plus the pointer's
\* displacement since the start divided by the scale, and every other
\* cluster is left as it was.
C20_DragScaleCorrection ==
  [][ (moves' = moves + 1 /\ dragState.mode = "drag") =>
        /\ Len(canvasClusters') = Len(gesture.clusters)
        /\ \A k \in 1..Len(gesture.clusters) :
             IF gesture.clusters[k].id = gesture.id
               THEN /\ MovedBy(canvasClusters'[k].x, gesture.clusters[k].x,
                               pointer'.x - gesture.pointer.x, scale)
                    /\ MovedBy(canvasClusters'[k].y, gesture.clusters[k].y,
                               pointer'.y - gesture.pointer.y, scale)
               ELSE /\ canvasClusters'[k] = canvasClusters[k]
                    /\ canvasClusters'[k] = gesture.clusters[k]
    ]_vars

\* A cluster is being dragged at a scale other than 1 and the pointer is away
\* from where the gesture began.
C20_Witness ==
  /\ dragState.mode = "drag"
  /\ moves > 0
  /\ scale # Whole(1)
  /\ pointer # gesture.pointer
  /\ MovedBy(Grabbed(canvasClusters).x, Grabbed(gesture.clusters).x,
             pointer.x - gesture.pointer.x, scale)
  /\ Grabbed(canvasClusters).x # QAdd(Grabbed(gesture.clusters).x,
                                      Whole(pointer.x - gesture.pointer.x))

\* The cluster c with the geometry of the cluster g.
WithGeometryOf(c, g) ==
  [c EXCEPT !.x = g.x, !.y = g.y, !.width = g.width, !.height = g.height]

\* C21: while a drag or a resize gesture of a cluster is on, the persisted
\* clusters are those of the moment the gesture began; a mousemove step of the
\* gesture leaves the persisted clusters as they are and changes nothing in
\* the local clusters but the geometry of the cluster grabbed; the mouse-up
\* step that ends the gesture leaves the local clusters as they are and makes
\* the persisted clusters equal to them.
C21_CommitOnPointerUp ==
  /\ [](dragState # NoDrag => persisted = gesture.clusters)
  /\ [][ /\ (moves' = moves + 1 /\ dragState # NoDrag) =>
             /\ persisted' = persisted
             /\ Len(canvasClusters') = Len(canvasClusters)
             /\ \A k \in 1..Len(canvasClusters) :
                  IF canvasClusters[k].id = dragState.id
                    THEN WithGeometryOf(canvasClusters'[k], canvasClusters[k])
                           = canvasClusters[k]
                    ELSE canvasClusters'[k] = canvasClusters[k]
         /\ (dragState # NoDrag /\ dragState' = NoDrag) =>
             /\ canvasClusters' = canvasClusters
             /\ persisted' = canvasClusters'
       ]_vars

\* A resize gesture has ended: the cluster grabbed has another width than
\* when the gesture began, and the persisted clusters are the local ones.
C21_Witness ==
  /\ dragState = NoDrag
  /\ gesture.id # ""
  /\ moves > 0
  /\ Grabbed(canvasClusters).width # Grabbed(gesture.clusters).width
  /\ persisted = canvasClusters

\* MinScale <= scale <= MaxScale
ScaleInBounds == ~QLess(scale, MinScale) /\ ~QLess(MaxScale, scale)

\* C23: the scale is at every moment at least 0.1 and at most 4, whatever
\* wheel events and zoom-in and zoom-out clicks there were, and a step of the
\* reset control leaves the scale at exactly 1 and the offset at (0, 0).
C23_ZoomBounds ==
  /\ []ScaleInBounds
  /\ [][ (zooms' = zooms + 1 /\ control' = "resetView")
           => (scale' = Whole(1) /\ offset' = Origin) ]_vars

\* The view was reset after a pan had moved the offset and a zoom had set
\* the scale.
C23_Witness ==
  /\ control = "resetView"
  /\ zooms = 2
  /\ scale = Whole(1)
  /\ offset = Origin
  /\ gesture.id = "" /\ gesture.clusters # <<>>
  /\ moves = 1

-----------------------------------------------------------------------------
\* Properties of the item drag and drop, checked under SpecItems.

\* The items of the cluster with id `id` (the first one) in the list cs.
ItemsIn(cs, id) == cs[FindCluster(cs, id)].items

\* How many items of the list have the id `id`.
CountOf(items, id) == Cardinality({ j \in 1..Len(items) : items[j].id = id })

\* How many times the item `item` occurs in the clusters of the list cs.
Occurrences(cs, item) ==
  Cardinality({ p \in (1..Len(cs)) \X (1..MaxItems * 2) :
                  p[2] <= Len(cs[p[1]].items) /\ cs[p[1]].items[p[2]] = item })

AllItems(cs) == UNION { { cs[k].items[j] : j \in 1..Len(cs[k].items) } : k \in 1..Len(cs) }

\* C22: in every step in which a dragged item is dropped, each item occurs
\* in the clusters as many times after the step as before it, the target
\* cluster then holds the dragged item's id exactly once, the source cluster,
\* when it is another cluster, no longer holds it, and the persisted clusters
\* are the local ones.
C22_DropConservesItems ==
  [][ Len(drops') = Len(drops) + 1 =>
        LET d == drops'[Len(drops')]
        IN  /\ \A item \in AllItems(canvasClusters) \cup AllItems(canvasClusters') :
                 Occurrences(canvasClusters', item) = Occurrences(canvasClusters, item)
            /\ CountOf(ItemsIn(canvasClusters', d.targetClusterId), d.itemId) = 1
            /\ d.clusterId # d.targetClusterId
                 => CountOf(ItemsIn(canvasClusters', d.clusterId), d.itemId) = 0
            /\ persisted' = canvasClusters'
    ]_vars

-----------------------------------------------------------------------------
\* Properties of the auto layout, checked under SpecLayout.

\* The positions the last run of handleAutoLayout assigned.
LastLayout == layouts[Len(layouts)]

\* C17: every run of handleAutoLayout after the first, on the cluster list the
\* run before it left (same order, widths and heights), assigns each cluster
\* the position the run before assigned, and the clusters stay there.
C17_LayoutIdempotent ==
  /\ \A r \in 2..Len(layouts) : layouts[r] = layouts[r - 1]
  /\ Len(layouts) >= 1 =>
        \A k \in 1..Len(canvasClusters) :
          /\ canvasClusters[k].x = Whole(LastLayout[k].x)
          /\ canvasClusters[k].y = Whole(LastLayout[k].y)

\* The layout ran twice on five clusters or more, which it moved from where
\* they were emitted into more than one row.
C17_Witness ==
  /\ Len(layouts) = 2
  /\ Len(canvasClusters) >= 5
  /\ \E k \in 1..Len(canvasClusters) :
       /\ LastLayout[k].y > START_Y
       /\ canvasClusters[k].x # EmittedCluster(k - 1, 0, 0).x

AllOfWidth(cs, width) == \A k \in 1..Len(cs) : cs[k].width = width

\* The positions pos fill rows of exactly perRow places, in order: two
\* clusters are in one row (have one y) exactly when their indices fall in
\* the same block of perRow, and a cluster's x is given by its place in the row.
InRowsOf(pos, perRow, width) ==
  /\ \A j, k \in 1..Len(pos) :
       (pos[j].y = pos[k].y) <=> ((j - 1) \div perRow = (k - 1) \div perRow)
  /\ \A k \in 1..Len(pos) :
       pos[k].x = START_X + ((k - 1) % perRow) * (width + PADDING)

\* C18, as the claim has it: clusters all 300 wide are laid out five to a row.
C18_FivePerRow ==
  (Len(layouts) >= 1 /\ AllOfWidth(canvasClusters, 300))
    => InRowsOf(LastLayout, 5, 300)

\* C18, amended: clusters all 300 wide are laid out four to a row, at
\* x = 50, 390, 730 and 1070; the fifth would end at 1710 > 1600 and wraps.
C18_FourPerRow ==
  (Len(layouts) >= 1 /\ AllOfWidth(canvasClusters, 300))
    => InRowsOf(LastLayout, 4, 300)

\* Six clusters 300 wide were laid out: a full row and the start of the next.
C18_Witness ==
  /\ Len(layouts) >= 1
  /\ AllOfWidth(canvasClusters, 300)
  /\ Len(canvasClusters) = 6
  /\ LastLayout[4].y = START_Y
  /\ LastLayout[5].y > START_Y
  /\ LastLayout[5].x = START_X

\* The clusters placed up to k in the row of cluster k.
RowUpTo(pos, k) == { j \in 1..k : pos[j].y = pos[k].y }

Tallest(cs, row) ==
  CHOOSE h \in { cs[j].height : j \in row } : \A j \in row : cs[j].height <= h

Disjoint(a, pa, b, pb) ==
  \/ pa.x + a.width <= pb.x
  \/ pb.x + b.width <= pa.x
  \/ pa.y + a.height <= pb.y
  \/ pb.y + b.height <= pa.y

\* C19: after handleAutoLayout no two clusters' rectangles overlap; a cluster
\* in the row of the one before it starts where that one ends plus the
\* padding; a cluster that starts a row is at the left margin, below the
\* tallest cluster of the row before it plus the padding.
C19_NoOverlap ==
  Len(layouts) >= 1 =>
    LET cs == canvasClusters
        pos == LastLayout
    IN  /\ \A j, k \in 1..Len(cs) : j < k => Disjoint(cs[j], pos[j], cs[k], pos[k])
        /\ \A k \in 1..Len(cs) - 1 :
             IF pos[k + 1].y = pos[k].y
               THEN pos[k + 1].x = pos[k].x + cs[k].width + PADDING
               ELSE /\ pos[k + 1].x = START_X
                    /\ pos[k + 1].y = pos[k].y + Tallest(cs, RowUpTo(pos, k)) + PADDING

\* A layout of three rows or more: a row whose last cluster is not its
\* tallest, and a cluster wider than a row.
C19_Witness ==
  /\ Len(layouts) >= 1
  /\ \E k \in 1..Len(canvasClusters) - 1 :
       /\ LastLayout[k + 1].y > LastLayout[k].y
       /\ canvasClusters[k].height < Tallest(canvasClusters, RowUpTo(LastLayout, k))
       /\ LastLayout[k].y > START_Y
  /\ \E k \in 1..Len(canvasClusters) : canvasClusters[k].width > MAX_ROW_WIDTH

-----------------------------------------------------------------------------
\* Further properties of retryOperation, checked under SpecRetry.

\* C24: the wait after the retryable failure of attempt k - 1 (counted from 0)
\* is delay * 2^(k - 1), and every wait is followed by another attempt: once
\* retryOperation has settled, the operation was invoked more often than
\* sleep was.
C24_BackoffBeforeRetry ==
  /\ Len(sleeps) <= Len(opLog)
  /\ \A k \in 1..Len(sleeps) :
       /\ sleeps[k] = delay * (2 ^ (k - 1))
       /\ opLog[k].kind = "throw"
       /\ ~NonRetryable(StatusOf(opLog[k].error))
  /\ rpc \in {"resolved", "rejected"} => Len(sleeps) < Len(opLog)

-----------------------------------------------------------------------------
\* Termination of analyzeResearchFile, checked under SpecLive.

\* The upload was invoked at most 3 times, each generation call at most 2
\* times, and the poll being issued is the 60th at most.
AttemptsBounded ==
  /\ attempts["upload"] <= UploadRetries
  /\ \A st \in {"main", "affinity", "insights"} : attempts[st] <= StageRetries
  /\ pc \in {"poll", "pollSleep"} => attempt <= MaxPolls

\* C27: every call of analyzeResearchFile settles (resolves or rejects), and
\* until then the upload is attempted at most 3 times, the remote state is
\* polled at most 60 times and each generation call is attempted at most twice.
C27_Terminates ==
  /\ []AttemptsBounded
  /\ <>(pc = "done" /\ result.kind \in {"ok", "throw"})

\* The call resolved after the upload used its three attempts and each
\* generation call its two.
C27_Witness ==
  /\ pc = "done"
  /\ result.kind = "ok"
  /\ attempts["upload"] = UploadRetries
  /\ \A st \in {"main", "affinity", "insights"} : attempts[st] = StageRetries

-----------------------------------------------------------------------------
\* Further properties of the project history, checked under SpecHistory.

HistoryIds == { history[k].id : k \in 1..Len(history) }

\* C26: no two entries of the history have the same id.
C26_HistoryKeyedById ==
  \A j, k \in 1..Len(history) : history[j].id = history[k].id => j = k

\* The history holds three projects; the active one was renamed and an
\* analysis completed for it, and its entry, the first, has the name and the data.
C26_Witness ==
  /\ Len(history) >= 3
  /\ edits = 1
  /\ projectName \in ProjectNames
  /\ projectData # NoData
  /\ history[1].id = projectId
  /\ history[1].name = projectName
  /\ history[1].data = projectData.data

-----------------------------------------------------------------------------
\* Further properties of the file handlers, checked under SpecFiles.

\* C25: each listed file whose analysis has resolved holds its own result as
\* analysisData; and the step that applies the completion of a listed file
\* makes that file's result the active document, whatever the document was
\* and whatever the place of the file in the list, and leaves the
\* analysisData of the other files as they are.  So once all completions have
\* been applied the active document is the result applied last.
C25_LastCompletionWins ==
  /\ [](\A k \in 1..Len(files) :
          promises[files[k].id].kind = "ok" =>
            files[k].analysisData = Data(promises[files[k].id].value))
  /\ [][ \A f \in FileIds :
           (promises[f] = Pending /\ promises'[f].kind = "ok" /\ Present(files, f)) =>
             /\ projectData' = Data(promises'[f].value)
             /\ Len(files') = Len(files)
             /\ \A k \in 1..Len(files) :
                  /\ files'[k].id = files[k].id
                  /\ files'[k].analysisData =
                       IF files[k].id = f THEN Data(promises'[f].value)
                                          ELSE files[k].analysisData
       ]_vars

\* Two files were analysed together and both succeeded with different
\* results; the active document is the result of the file added first, whose
\* completion came second.
C25_Witness ==
  /\ Len(files) = 2
  /\ files[1].id = 1 /\ files[2].id = 2
  /\ promises[1].kind = "ok" /\ promises[2].kind = "ok"
  /\ promises[1].value # promises[2].value
  /\ files[1].analysisData = Data(promises[1].value)
  /\ files[2].analysisData = Data(promises[2].value)
  /\ projectData = Data(promises[1].value)
  /\ history[1].data = promises[1].value

\* C28: a listed file whose status is 'uploaded' has its analysisData set.
C28_UploadedHasData ==
  \A k \in 1..Len(files) :
    files[k].status = "uploaded" => files[k].analysisData # NoData

-----------------------------------------------------------------------------
\* Properties of the screens, checked under SpecScreens.

AnalysisScreens == {"TRANSCRIPT", "AFFINITY", "INSIGHTS", "SUMMARY"}

\* C30: whenever the current screen is TRANSCRIPT, AFFINITY, INSIGHTS or
\* SUMMARY the active document projectState.data is not null.
C30_AnalysisScreenHasData ==
  currentScreen \in AnalysisScreens => projectData # NoData

====
